---- MODULE Spec2Model ----
(***************************************************************************)
(* Connection orchestration of SyncSonicPi: the controller-allocation      *)
(* planner (connect_planner.py), the single-writer worker of the           *)
(* ConnectionService with its handshake FSM (connection_service.py), the   *)
(* discovery reference counts (scan_manager.py) and the DBus helpers       *)
(* (bt_helpers.py).                                                        *)
(***************************************************************************)
EXTENDS Integers, Sequences, FiniteSets, TLC

(***************************************************************************)
(* The BlueZ object tree.  A snapshot (GetManagedObjects) is a sequence of *)
(* objects in the dict's iteration order.  An adapter object has the hci   *)
(* name of its path and its Address; a device object has the hci name of   *)
(* the adapter its path is under, its Address and its Device1 flags.       *)
(***************************************************************************)
Hcis == <<"hci0", "hci1", "hci2">>

HciSet == {Hcis[i] : i \in 1..Len(Hcis)}

\* Address property of each adapter object
AdapterAddr == [h \in HciSet |-> CASE h = "hci0" -> "AD0" [] h = "hci1" -> "AD1" [] OTHER -> "AD2"]

Macs == <<"S1", "S2", "S3">>

MacSet == {Macs[i] : i \in 1..Len(Macs)}

\* RESERVED_HCI of the environment: the adapter kept for the phone link
reserved == "hci0"

FreeHcis == HciSet \ {reserved}

AdapterObj(h) == [kind |-> "adapter", hci |-> h, addr |-> AdapterAddr[h]]

DeviceObj(h, m, c) == [kind |-> "device", hci |-> h, addr |-> m, connected |-> c]

Range(s) == {s[i] : i \in 1..Len(s)}

(***************************************************************************)
(* connect_one_plan                                                        *)
(***************************************************************************)
\* the adapter map of a planner that forgets to skip the reserved adapter
PlanAdapters_KeepReserved(objects) ==
  SelectSeq(objects, LAMBDA o : o.kind = "adapter")

\* connect_planner.py 35-41: adapter Address -> path, reserved adapter skipped
PlanAdapters(objects) ==
  SelectSeq(objects, LAMBDA o : o.kind = "adapter" /\ o.hci # reserved)

\* connect_planner.py 52-58: the Address of the recognised adapter the device
\* path is under, "" when there is none
CtrlOf(adapters, dev) ==
  LET hits == SelectSeq(adapters, LAMBDA a : a.hci = dev.hci)
  IN IF Len(hits) = 0 THEN "" ELSE hits[1].addr

\* dict.setdefault(mac, []).append(ctrl) on an insertion-ordered dict
UsageAppend(usage, mac, ctrl) ==
  IF \E i \in 1..Len(usage) : usage[i].mac = mac
  THEN [i \in 1..Len(usage) |->
          IF usage[i].mac = mac
          THEN [mac |-> mac, ctrls |-> Append(usage[i].ctrls, ctrl)]
          ELSE usage[i]]
  ELSE Append(usage, [mac |-> mac, ctrls |-> <<ctrl>>])

EmptyScan ==
  [disconnect_list |-> <<>>, target_connected_on |-> <<>>,
   config_speaker_usage |-> <<>>, used_controllers |-> {}]

\* a device loop that leaves out-of-config devices where they are
ScanStep_KeepStrangers(acc, o, target_mac, allowed_macs, adapters) ==
  LET ctrl_mac == CtrlOf(adapters, o)
      acc1 == IF o.addr \in allowed_macs
              THEN [acc EXCEPT !.config_speaker_usage =
                      UsageAppend(acc.config_speaker_usage, o.addr, ctrl_mac)]
              ELSE acc
  IN IF o.kind # "device" \/ ctrl_mac = "" \/ ~o.connected THEN acc
     ELSE IF o.addr = target_mac
          THEN [acc1 EXCEPT !.target_connected_on = Append(@, ctrl_mac)]
     ELSE IF o.addr \notin allowed_macs
          THEN acc1
     ELSE [acc1 EXCEPT !.used_controllers = @ \cup {ctrl_mac}]

\* a device loop in which an out-of-config device occupies its controller
ScanStep_StrangersOccupy(acc, o, target_mac, allowed_macs, adapters) ==
  LET ctrl_mac == CtrlOf(adapters, o)
      acc1 == IF o.addr \in allowed_macs
              THEN [acc EXCEPT !.config_speaker_usage =
                      UsageAppend(acc.config_speaker_usage, o.addr, ctrl_mac)]
              ELSE acc
  IN IF o.kind # "device" \/ ctrl_mac = "" \/ ~o.connected THEN acc
     ELSE IF o.addr = target_mac
          THEN [acc1 EXCEPT !.target_connected_on = Append(@, ctrl_mac)]
     ELSE IF o.addr \notin allowed_macs
          THEN [acc1 EXCEPT !.disconnect_list = Append(@, <<o.addr, ctrl_mac>>),
                            !.used_controllers = @ \cup {ctrl_mac}]
     ELSE [acc1 EXCEPT !.used_controllers = @ \cup {ctrl_mac}]

\* connect_planner.py 47-79: one iteration of the device loop
ScanStep(acc, o, target_mac, allowed_macs, adapters) ==
  LET ctrl_mac == CtrlOf(adapters, o)
      acc1 == IF o.addr \in allowed_macs
              THEN [acc EXCEPT !.config_speaker_usage =
                      UsageAppend(acc.config_speaker_usage, o.addr, ctrl_mac)]
              ELSE acc
  IN IF o.kind # "device" \/ ctrl_mac = "" \/ ~o.connected THEN acc
     ELSE IF o.addr = target_mac
          THEN [acc1 EXCEPT !.target_connected_on = Append(@, ctrl_mac)]
     ELSE IF o.addr \notin allowed_macs
          THEN [acc1 EXCEPT !.disconnect_list = Append(@, <<o.addr, ctrl_mac>>)]
     ELSE [acc1 EXCEPT !.used_controllers = @ \cup {ctrl_mac}]

\* connect_planner.py 46-79: the whole device loop
ScanDevices(target_mac, allowed_macs, objects, adapters) ==
  LET f[i \in 0..Len(objects)] ==
        IF i = 0 THEN EmptyScan
        ELSE ScanStep(f[i - 1], objects[i], target_mac, allowed_macs, adapters)
  IN f[Len(objects)]

Decision(status, ctrl, dl) == [status |-> status, controller |-> ctrl, evict |-> dl]

\* a fallback that hands out the duplicate's second controller without
\* evicting the duplicate from it
FreeDuplicate_NoEvict(usage, dl) ==
  LET dups == SelectSeq(usage, LAMBDA u : Len(u.ctrls) > 1)
  IN IF Len(dups) = 0 THEN Decision("error", "", dl)
     ELSE Decision("needs_connection", dups[1].ctrls[2], dl)

\* a fallback that evicts the duplicate from its second controller but hands
\* out its first one
FreeDuplicate_OtherAdapter(usage, dl) ==
  LET dups == SelectSeq(usage, LAMBDA u : Len(u.ctrls) > 1)
  IN IF Len(dups) = 0 THEN Decision("error", "", dl)
     ELSE Decision("needs_connection", dups[1].ctrls[1],
                   Append(dl, <<dups[1].mac, dups[1].ctrls[2]>>))

\* a fallback that takes the controller of any connected in-config speaker
FreeDuplicate_AnySpeaker(usage, dl) ==
  IF Len(usage) = 0 THEN Decision("error", "", dl)
  ELSE Decision("needs_connection", usage[1].ctrls[Len(usage[1].ctrls)],
                Append(dl, <<usage[1].mac, usage[1].ctrls[Len(usage[1].ctrls)]>>))

\* connect_planner.py 108-113 and 126-131: first speaker of the usage map
\* that is connected on more than one controller gives up its second one
FreeDuplicate(usage, dl) ==
  LET dups == SelectSeq(usage, LAMBDA u : Len(u.ctrls) > 1)
  IN IF Len(dups) = 0 THEN Decision("error", "", dl)
     ELSE Decision("needs_connection", dups[1].ctrls[2],
                   Append(dl, <<dups[1].mac, dups[1].ctrls[2]>>))

\* a multi-connection rule that keeps the controller found last
KeepFirst_KeepLast(target_mac, tco, dl) ==
  Decision("already_connected", tco[Len(tco)],
           dl \o [i \in 1..(Len(tco) - 1) |-> <<target_mac, tco[i]>>])

\* a multi-connection rule that lists every eviction twice
KeepFirst_EvictTwice(target_mac, tco, dl) ==
  Decision("already_connected", tco[1],
           dl \o [i \in 1..(Len(tco) - 1) |-> <<target_mac, tco[i + 1]>>]
              \o [i \in 1..(Len(tco) - 1) |-> <<target_mac, tco[i + 1]>>])

\* a multi-connection rule that also evicts the target from the controller
\* it keeps
KeepFirst_EvictKept(target_mac, tco, dl) ==
  Decision("already_connected", tco[1],
           dl \o [i \in 1..Len(tco) |-> <<target_mac, tco[i]>>])

\* connect_planner.py 85-91: the target is connected on several controllers:
\* keep the first, evict the target from the others
KeepFirst(target_mac, tco, dl) ==
  Decision("already_connected", tco[1],
           dl \o [i \in 1..(Len(tco) - 1) |-> <<target_mac, tco[i + 1]>>])

\* a sharing test that forgets `mac != target_mac`
Sharers_IncludingTarget(usage, target_mac, controller) ==
  SelectSeq(usage, LAMBDA u : controller \in Range(u.ctrls))

\* connect_planner.py 96-97: the in-config speakers other than the target
\* that are connected on the target's controller
Sharers(usage, target_mac, controller) ==
  SelectSeq(usage, LAMBDA u : u.mac # target_mac /\ controller \in Range(u.ctrls))

\* connect_planner.py 8-134
connect_one_plan(target_mac, allowed_macs, objects) ==
  LET adapters == PlanAdapters(objects)
      s == ScanDevices(target_mac, allowed_macs, objects, adapters)
      tco == s.target_connected_on
      usage == s.config_speaker_usage
      used == s.used_controllers
      dl == s.disconnect_list
  IN IF Len(tco) > 1
     THEN KeepFirst(target_mac, tco, dl)
     ELSE IF Len(tco) = 1
     THEN LET controller == tco[1]
              sharers == Sharers(usage, target_mac, controller)
              dl2 == Append(dl, <<target_mac, controller>>)
              free == SelectSeq(adapters, LAMBDA a :
                            a.addr \notin used /\ a.addr # controller)
          IN IF Len(sharers) = 0
             THEN Decision("already_connected", controller, dl)
             ELSE IF Len(free) > 0
                  THEN Decision("needs_connection", free[1].addr, dl2)
                  ELSE FreeDuplicate(usage, dl2)
     ELSE LET free == SelectSeq(adapters, LAMBDA a : a.addr \notin used)
          IN IF Len(free) > 0
             THEN Decision("needs_connection", free[1].addr, dl)
             ELSE FreeDuplicate(usage, dl)

(***************************************************************************)
(* State of the service, of the bus and of the planner harness             *)
(***************************************************************************)
VARIABLES
  dev,        \* BlueZ Device1 objects: <<hci, mac>> -> flags
  signals,    \* PropertiesChanged signals emitted, not yet dispatched
  work_q,     \* connection_service.work_q
  expected,   \* ConnectionService.expected
  loopbacks,  \* ConnectionService.loopbacks
  routes,     \* loopback modules created and not since unloaded
  refcount,   \* ScanManager._adapters[addr].refcount
  pc,         \* position of the worker thread
  cur,        \* the command the worker is executing
  fsm,        \* locals of _try_reconnect
  plan,       \* decision computed by the CONNECT_ONE being executed
  oplog,      \* operations and notifications of the last step of the worker
  terminals,  \* terminal notifications sent for the command being executed
  running,    \* ids of the commands being executed
  done,       \* ids of the commands executed to the end
  reported,   \* last Connected value turned into a LOOPBACK_SYNC, per mac
  nextId,     \* commands enqueued so far + 1
  envCount,   \* spontaneous link changes so far
  p_in,       \* planner harness: the inputs of connect_one_plan
  p_out,      \* planner harness: the decision returned
  scan_call,  \* discovery harness: the last call of a ScanManager method
  last_op,    \* discovery harness: last StartDiscovery/StopDiscovery per adapter
  scan_calls, \* discovery harness: calls made so far
  clock,      \* wait harness: time.time()
  in_tree,    \* wait harness: the target's device object is in the object tree
  added,      \* wait harness: InterfacesAdded signals not yet handled
  cond_owner, \* wait harness: the thread that holds ScanManager._lock
  waiter      \* wait harness: the caller of wait_for_device

vars == <<dev, signals, work_q, expected, loopbacks, routes, refcount, pc, cur,
          fsm, plan, oplog, terminals, running, done, reported, nextId, envCount,
          p_in, p_out, scan_call, last_op, scan_calls,
          clock, in_tree, added, cond_owner, waiter>>

waitVars == <<clock, in_tree, added, cond_owner, waiter>>

scanVars == <<scan_call, last_op, scan_calls, waitVars>>

svcVars == <<dev, signals, work_q, expected, loopbacks, routes, refcount, pc, cur,
             fsm, plan, oplog, terminals, running, done, reported, nextId, envCount>>

\* commands submitted by the transports, in all
MaxCmds == 2

\* spontaneous connects and disconnects of speakers, in all
MaxEnv == 1

\* _try_reconnect: max_retry
max_retry == 3

\* the payloads the transports send: (target, allowed) of CONNECT_ONE, the mac
\* of DISCONNECT, (macs, replace) of SET_EXPECTED
ConnectInputs == {<<"S1", {"S1"}>>, <<"S2", {"S1", "S2", "S3"}>>}

DisconnectInputs == {"S1"}

ExpectedInputs == {<<{"S1"}, TRUE>>, <<{"S2"}, FALSE>>}

Paths == HciSet \X MacSet

Absent == [present |-> FALSE, paired |-> FALSE, trusted |-> FALSE, connected |-> FALSE]

Bonded == [present |-> TRUE, paired |-> TRUE, trusted |-> TRUE, connected |-> FALSE]

Linked == [present |-> TRUE, paired |-> TRUE, trusted |-> TRUE, connected |-> TRUE]

NoCmd == [id |-> 0, intent |-> "none", mac |-> "", allowed |-> {}, replace |-> FALSE, connected |-> FALSE]

NoPlan == Decision("none", "", <<>>)

\* pair_failed and removed count the failed pair operations and the
\* RemoveDevice calls of the current run of _try_reconnect
NoFsm == [state |-> "none", attempt |-> 0, adapter |-> "", device_path |-> <<>>,
          pair_failed |-> 0, removed |-> 0]

NoInput == [target |-> "", allowed |-> {}, objects |-> <<>>]

NoOp == [op |-> "", res |-> ""]

NoCall == [fn |-> "", adapter |-> "", op |-> "", res |-> "", raised |-> FALSE]

\* nobody has called wait_for_device; deadline -1 stands for no deadline
NoWaiter ==
  [pc |-> "idle", deadline |-> -1, notified |-> FALSE, result |-> "",
   blocked |-> FALSE, hit |-> FALSE, seen |-> FALSE]

WaitQuiet ==
  /\ clock = 0
  /\ in_tree = FALSE
  /\ added = <<>>
  /\ cond_owner = ""
  /\ waiter = NoWaiter

ScanQuiet ==
  /\ scan_call = NoCall
  /\ last_op = [h \in HciSet |-> NoOp]
  /\ scan_calls = 0
  /\ WaitQuiet

Cmd(id, intent, mac, allowed, replace, connected) ==
  [id |-> id, intent |-> intent, mac |-> mac, allowed |-> allowed,
   replace |-> replace, connected |-> connected]

Entry(op, arg, mac, res) == [op |-> op, arg |-> arg, mac |-> mac, res |-> res]

Note(type, phase, mac) == Entry("notify", type, mac, phase)

\* the device paths in the iteration order of GetManagedObjects
DevPaths ==
  [i \in 1..(Len(Hcis) * Len(Macs)) |->
     <<Hcis[((i - 1) \div Len(Macs)) + 1], Macs[((i - 1) % Len(Macs)) + 1]>>]

\* bus.get("org.bluez", "/").GetManagedObjects()
GetManagedObjects(d) ==
  LET present == SelectSeq(DevPaths, LAMBDA p : d[p].present)
  IN [i \in 1..Len(Hcis) |-> AdapterObj(Hcis[i])]
     \o [i \in 1..Len(present) |->
           DeviceObj(present[i][1], present[i][2], d[present[i]].connected)]

ConnectedSomewhere(d, m) == \E h \in HciSet : d[<<h, m>>].connected

\* a _device_path that does not compare the Address: the first adapter wins
DevicePath_FirstAdapter(d, ctrl_mac, dev_mac) ==
  LET hits == SelectSeq(GetManagedObjects(d), LAMBDA o : o.kind = "adapter")
  IN IF Len(hits) = 0 THEN <<>> ELSE <<hits[1].hci, dev_mac>>

\* connection_service.py 420-433: path of dev_mac under the adapter whose
\* Address is ctrl_mac, <<>> (None) when no adapter has that Address
DevicePath(d, ctrl_mac, dev_mac) ==
  LET hits == SelectSeq(GetManagedObjects(d),
                        LAMBDA o : o.kind = "adapter" /\ o.addr = ctrl_mac)
  IN IF Len(hits) = 0 THEN <<>> ELSE <<hits[1].hci, dev_mac>>

Exists(d, path) == path \in Paths /\ d[path].present

(***************************************************************************)
(* Planner harness: connect_one_plan applied to every bounded snapshot     *)
(***************************************************************************)
Reverse(s) == [i \in 1..Len(s) |-> s[Len(s) + 1 - i]]

\* device paths speaker by speaker instead of adapter by adapter
MacMajorPaths ==
  [i \in 1..(Len(Hcis) * Len(Macs)) |->
     <<Hcis[((i - 1) % Len(Hcis)) + 1], Macs[((i - 1) \div Len(Hcis)) + 1]>>]

AdapterOrders == {Hcis, Reverse(Hcis)}

DeviceOrders == {DevPaths, Reverse(DevPaths), MacMajorPaths, Reverse(MacMajorPaths)}

\* a snapshot: the adapters in one order, then the connected devices in one order
SnapshotOf(adapterOrder, deviceOrder, conn) ==
  LET devs == SelectSeq(deviceOrder, LAMBDA p : p \in conn)
  IN [i \in 1..Len(adapterOrder) |-> AdapterObj(adapterOrder[i])]
     \o [i \in 1..Len(devs) |-> DeviceObj(devs[i][1], devs[i][2], TRUE)]

SvcQuiet ==
  /\ dev = [p \in Paths |-> Absent]
  /\ signals = <<>>
  /\ work_q = <<>>
  /\ expected = {}
  /\ loopbacks = {}
  /\ routes = {}
  /\ refcount = [h \in HciSet |-> 0]
  /\ pc = "idle"
  /\ cur = NoCmd
  /\ fsm = NoFsm
  /\ plan = NoPlan
  /\ oplog = <<>>
  /\ terminals = 0
  /\ running = {}
  /\ done = {}
  /\ reported = [m \in MacSet |-> "none"]
  /\ nextId = 1
  /\ envCount = 0

PlanInit ==
  /\ SvcQuiet
  /\ \E t \in MacSet, al \in SUBSET MacSet, conn \in SUBSET Paths,
        ao \in AdapterOrders, do \in DeviceOrders :
       p_in = [target |-> t, allowed |-> al, objects |-> SnapshotOf(ao, do, conn)]
  /\ p_out = NoPlan
  /\ ScanQuiet

\* the caller of connect_planner.py 8: one call on the drawn inputs
PlanCall ==
  /\ p_out = NoPlan
  /\ p_out' = connect_one_plan(p_in.target, p_in.allowed, p_in.objects)
  /\ UNCHANGED <<svcVars, p_in, scanVars>>

PlanNext == PlanCall

PlanSpec == PlanInit /\ [][PlanNext]_vars

\* the hci name of the adapter object with this Address, "" when there is none
HciOfAddr(objects, addr) ==
  LET hits == SelectSeq(objects, LAMBDA o : o.kind = "adapter" /\ o.addr = addr)
  IN IF Len(hits) = 0 THEN "" ELSE hits[1].hci

\* the snapshot once every (device, adapter) pair of the evict list is disconnected
AfterEvictions(objects, evict) ==
  [i \in 1..Len(objects) |->
     IF /\ objects[i].kind = "device"
        /\ \E j \in 1..Len(evict) :
             /\ evict[j][1] = objects[i].addr
             /\ HciOfAddr(objects, evict[j][2]) = objects[i].hci
     THEN [objects[i] EXCEPT !.connected = FALSE]
     ELSE objects[i]]

\* in-config speakers connected on adapter h in a snapshot
InConfigOn(objects, allowed, h) ==
  {objects[i].addr : i \in {j \in 1..Len(objects) :
      /\ objects[j].kind = "device" /\ objects[j].hci = h
      /\ objects[j].connected /\ objects[j].addr \in allowed}}

\* C2: once the evictions of the decision are applied to the snapshot, every
\* non-reserved adapter has at most one connected in-config speaker.
C2_NoDoubleAllocation ==
  p_out # NoPlan =>
    \A h \in FreeHcis :
      Cardinality(InConfigOn(AfterEvictions(p_in.objects, p_out.evict),
                             p_in.allowed, h)) <= 1

\* the snapshot without the device objects under the reserved adapter
StripReserved(objects) ==
  SelectSeq(objects, LAMBDA o : ~(o.kind = "device" /\ o.hci = reserved))

\* C10: the reserved adapter is never the controller of a decision, no
\* eviction names it, and the devices connected on it change nothing of the
\* decision: the plan equals the plan for the snapshot without them.
C10_ReservedExcluded ==
  p_out # NoPlan =>
    /\ p_out.controller # AdapterAddr[reserved]
    /\ \A j \in 1..Len(p_out.evict) : p_out.evict[j][2] # AdapterAddr[reserved]
    /\ p_out = connect_one_plan(p_in.target, p_in.allowed, StripReserved(p_in.objects))

\* a decision was taken for a target that is connected on the reserved adapter
\* next to an out-of-config device, and on no other adapter
C10_Witness ==
  /\ p_out.status = "needs_connection"
  /\ \E i \in 1..Len(p_in.objects) :
       /\ p_in.objects[i] = DeviceObj(reserved, p_in.target, TRUE)
  /\ \E i \in 1..Len(p_in.objects) :
       /\ p_in.objects[i].kind = "device" /\ p_in.objects[i].hci = reserved
       /\ p_in.objects[i].addr \notin p_in.allowed \cup {p_in.target}
  /\ \A h \in FreeHcis, i \in 1..Len(p_in.objects) :
       p_in.objects[i] # DeviceObj(h, p_in.target, TRUE)

(***************************************************************************)
(* The service: transports, bus dispatch thread, worker thread             *)
(***************************************************************************)
PropSignal(h, m, c) ==
  [iface |-> "org.bluez.Device1", hci |-> h, mac |-> m,
   props |-> {"Connected"}, connected |-> c]

\* PropertiesChanged of a device object that does not include Connected (RSSI)
DevicePropSignal(h, m) ==
  [iface |-> "org.bluez.Device1", hci |-> h, mac |-> m,
   props |-> {"RSSI"}, connected |-> FALSE]

\* PropertiesChanged of an adapter object (Discovering); its path has no dev_ part
AdapterPropSignal(h) ==
  [iface |-> "org.bluez.Adapter1", hci |-> h, mac |-> "",
   props |-> {"Discovering"}, connected |-> FALSE]

\* the changes other than link changes that BlueZ reports
OtherSignals == {DevicePropSignal("hci1", "S1"), AdapterPropSignal("hci1")}

\* what BlueZ holds when the service starts: nothing; a stale dual
\* connection of S1 that shares hci1 with S2, S2 being bonded on hci2 as well;
\* or S1 and S3 connected on one free adapter each
InitTopologies ==
  { [p \in Paths |-> Absent],
    [p \in Paths |-> IF p \in {<<"hci1", "S1">>, <<"hci2", "S1">>, <<"hci1", "S2">>}
                     THEN Linked
                     ELSE IF p = <<"hci2", "S2">> THEN Bonded ELSE Absent],
    [p \in Paths |-> IF p \in {<<"hci1", "S1">>, <<"hci2", "S3">>}
                     THEN Linked ELSE Absent] }

Init ==
  /\ dev \in InitTopologies
  /\ signals = <<>>
  /\ work_q = <<>>
  /\ expected = {}
  /\ loopbacks = {}
  /\ routes = {}
  /\ refcount = [h \in HciSet |-> 0]
  /\ pc = "idle"
  /\ cur = NoCmd
  /\ fsm = NoFsm
  /\ plan = NoPlan
  /\ oplog = <<>>
  /\ terminals = 0
  /\ running = {}
  /\ done = {}
  /\ reported = [m \in MacSet |-> "none"]
  /\ nextId = 1
  /\ envCount = 0
  /\ p_in = NoInput
  /\ p_out = NoPlan
  /\ ScanQuiet

\* connection_service.py 83-85: work_q.put((intent, payload)), any thread
Submit ==
  /\ nextId <= MaxCmds
  /\ \E c \in {Cmd(nextId, "CONNECT_ONE", x[1], x[2], FALSE, FALSE) : x \in ConnectInputs}
           \cup {Cmd(nextId, "DISCONNECT", m, {}, FALSE, FALSE) : m \in DisconnectInputs}
           \cup {Cmd(nextId, "SET_EXPECTED", "", x[1], x[2], FALSE) : x \in ExpectedInputs} :
       work_q' = Append(work_q, c)
  /\ nextId' = nextId + 1
  /\ UNCHANGED <<dev, signals, expected, loopbacks, routes, refcount, pc, cur, fsm,
                 plan, oplog, terminals, running, done, reported, envCount, p_in, p_out, scanVars>>

\* a bonded speaker connects to the host on its own
EnvConnect ==
  /\ envCount < MaxEnv
  /\ \E p \in Paths :
       /\ dev[p].present /\ dev[p].paired /\ ~dev[p].connected
       /\ dev' = [dev EXCEPT ![p].connected = TRUE]
       /\ signals' = Append(signals, PropSignal(p[1], p[2], TRUE))
  /\ envCount' = envCount + 1
  /\ UNCHANGED <<work_q, expected, loopbacks, routes, refcount, pc, cur, fsm, plan,
                 oplog, terminals, running, done, reported, nextId, p_in, p_out, scanVars>>

\* a connected speaker drops its link (switched off, out of range)
EnvDisconnect ==
  /\ envCount < MaxEnv
  /\ \E p \in Paths :
       /\ dev[p].connected
       /\ dev' = [dev EXCEPT ![p].connected = FALSE]
       /\ signals' = Append(signals, PropSignal(p[1], p[2], FALSE))
  /\ envCount' = envCount + 1
  /\ UNCHANGED <<work_q, expected, loopbacks, routes, refcount, pc, cur, fsm, plan,
                 oplog, terminals, running, done, reported, nextId, p_in, p_out, scanVars>>

\* BlueZ reports a change that is not a link change: the signal strength of a
\* known device, or the Discovering flag of an adapter
EnvOther ==
  /\ envCount < MaxEnv
  /\ \E s \in OtherSignals :
       /\ s.mac # "" => dev[<<s.hci, s.mac>>].present
       /\ signals' = Append(signals, s)
  /\ envCount' = envCount + 1
  /\ UNCHANGED <<dev, work_q, expected, loopbacks, routes, refcount, pc, cur, fsm, plan,
                 oplog, terminals, running, done, reported, nextId, p_in, p_out, scanVars>>

\* a handler that does not look at the Expected Set
OnPropsChanged_AnyMac ==
  /\ signals # <<>>
  /\ LET s == Head(signals)
     IN /\ signals' = Tail(signals)
        /\ IF /\ s.iface = "org.bluez.Device1"
              /\ s.mac # "" /\ "Connected" \in s.props
           THEN /\ work_q' = Append(work_q,
                       Cmd(nextId, "LOOPBACK_SYNC", s.mac, {}, FALSE, s.connected))
                /\ nextId' = nextId + 1
                /\ reported' = [reported EXCEPT ![s.mac] =
                                  IF s.connected THEN "up" ELSE "down"]
           ELSE UNCHANGED <<work_q, nextId, reported>>
  /\ UNCHANGED <<dev, expected, loopbacks, routes, refcount, pc, cur, fsm, plan,
                 oplog, terminals, running, done, envCount, p_in, p_out, scanVars>>

\* connection_service.py 106-126: _on_props_changed, on the GLib thread
OnPropsChanged ==
  /\ signals # <<>>
  /\ LET s == Head(signals)
     IN /\ signals' = Tail(signals)
        /\ IF /\ s.iface = "org.bluez.Device1"
              /\ s.mac # "" /\ "Connected" \in s.props
              /\ s.mac \in expected
           THEN /\ work_q' = Append(work_q,
                       Cmd(nextId, "LOOPBACK_SYNC", s.mac, {}, FALSE, s.connected))
                /\ nextId' = nextId + 1
                /\ reported' = [reported EXCEPT ![s.mac] =
                                  IF s.connected THEN "up" ELSE "down"]
           ELSE UNCHANGED <<work_q, nextId, reported>>
  /\ UNCHANGED <<dev, expected, loopbacks, routes, refcount, pc, cur, fsm, plan,
                 oplog, terminals, running, done, envCount, p_in, p_out, scanVars>>

\* a second consumer: a command is taken while another one is being executed
WorkerGet_Busy(intent) ==
  /\ pc \in {"idle", "done"}
  /\ work_q # <<>>
  /\ Head(work_q).intent = intent
  /\ cur' = Head(work_q)
  /\ work_q' = Tail(work_q)
  /\ running' = running \cup {Head(work_q).id}

\* a LIFO queue: the worker takes the command enqueued last
WorkerGet_Lifo(intent) ==
  /\ pc = "idle"
  /\ work_q # <<>>
  /\ work_q[Len(work_q)].intent = intent
  /\ cur' = work_q[Len(work_q)]
  /\ work_q' = SubSeq(work_q, 1, Len(work_q) - 1)
  /\ running' = running \cup {work_q[Len(work_q)].id}

\* connection_service.py 134-139 and the dispatch on the intent: the worker
\* takes the next command, which becomes the command being executed
WorkerGet(intent) ==
  /\ pc = "idle"
  /\ work_q # <<>>
  /\ Head(work_q).intent = intent
  /\ cur' = Head(work_q)
  /\ work_q' = Tail(work_q)
  /\ running' = running \cup {Head(work_q).id}

\* the notifications that end a command for the user: the success, the
\* discovery timeout, the loopback failure, and the pairing or connect failure
\* that uses up the retry budget
Terminal(e, exhausted) ==
  /\ e.op = "notify"
  /\ \/ e.res \in {"connect_success", "discovery_timeout", "loopback creation failed"}
     \/ e.res \in {"pairing_failed", "connect_failed"} /\ exhausted

CountTerminals ==
  terminals' = terminals +
     Cardinality({i \in 1..Len(oplog') : Terminal(oplog'[i], pc' = "done")})

\* connection_service.py 134: the command is over, back to work_q.get
Finish ==
  /\ pc = "done"
  /\ pc' = "idle"
  /\ running' = running \ {cur.id}
  /\ done' = done \cup {cur.id}
  /\ cur' = NoCmd
  /\ fsm' = NoFsm
  /\ plan' = NoPlan
  /\ oplog' = <<>>
  /\ terminals' = 0
  /\ UNCHANGED <<dev, signals, work_q, expected, loopbacks, routes, refcount,
                 reported, nextId, envCount, p_in, p_out, scanVars>>

\* a SET_EXPECTED that replaces the set whatever the flag
set_expected_AlwaysReplace(exp, macs, replace) == macs

\* connection_service.py 141-147: replace the Expected Set or add to it
set_expected(exp, macs, replace) == IF replace THEN macs ELSE exp \cup macs

\* connection_service.py 141-148
DoSetExpected ==
  /\ WorkerGet("SET_EXPECTED")
  /\ expected' = set_expected(expected, cur'.allowed, cur'.replace)
  /\ pc' = "done"
  /\ UNCHANGED <<dev, signals, loopbacks, routes, refcount, fsm, plan,
                 oplog, terminals, done, reported, nextId, envCount, p_in, p_out, scanVars>>

(***************************************************************************)
(* Helpers of the worker.  They run inside one worker step on a record st  *)
(* of the variables they may change: dev, signals, routes, loopbacks,      *)
(* oplog.  The outcome of every bus or pactl call is an argument.          *)
(***************************************************************************)
St(d, sg, r, lb, ol) == [dev |-> d, signals |-> sg, routes |-> r, loopbacks |-> lb, oplog |-> ol]

Log(st, e) == [st EXCEPT !.oplog = Append(@, e)]

PathHci(path) == IF path = <<>> THEN "" ELSE path[1]

\* pulseaudio_service.py 20-22
remove_loopback_for_device(st, mac) ==
  Log([st EXCEPT !.routes = @ \ {mac}], Entry("remove_loopback", "", mac, "ok"))

\* outcomes of create_loopback: the sink never appears, the module loads, or
\* the old modules are unloaded and the load fails
LoopbackOutcomes(d, mac) ==
  IF ConnectedSomewhere(d, mac) THEN {"ok", "nosink", "loadfail"} ELSE {"nosink"}

\* pulseaudio_service.py 92-143; returns TRUE exactly for the outcome "ok"
create_loopback(st, mac, out) ==
  Log([st EXCEPT !.routes = CASE out = "ok" -> @ \cup {mac}
                              [] out = "loadfail" -> @ \ {mac}
                              [] OTHER -> @],
      Entry("create_loopback", "", mac, out))

\* bt_helpers.py 60-73: Disconnect() then remove_loopback_for_device; any
\* exception (no such object, not connected, bus error) skips the rest
disconnect_device_dbus(st, path, mac, ok) ==
  IF Exists(st.dev, path) /\ st.dev[path].connected /\ ok
  THEN remove_loopback_for_device(
         Log([st EXCEPT !.dev[path].connected = FALSE,
                        !.signals = Append(@, PropSignal(path[1], mac, FALSE))],
             Entry("Disconnect", PathHci(path), mac, "ok")), mac)
  ELSE Log(st, Entry("Disconnect", PathHci(path), mac, "fail"))

\* connection_service.py 165-167: the evictions, in list order
Evictions(st, dc_list, oks) ==
  LET f[i \in 0..Len(dc_list)] ==
        IF i = 0 THEN st
        ELSE disconnect_device_dbus(
               f[i - 1], DevicePath(f[i - 1].dev, dc_list[i][2], dc_list[i][1]),
               dc_list[i][1], oks[i])
  IN f[Len(dc_list)]

\* dev_iface.ConnectProfile(A2DP_UUID) inside try/except
ConnectProfile(st, path, mac, ok) ==
  Log(st, Entry("ConnectProfile", PathHci(path), mac, IF ok THEN "ok" ELSE "fail"))

\* an already_connected branch that creates the loopback whether or not the
\* registry holds the target
AlreadyConnected_AlwaysCreates(st, mac, ctrl_mac, prof, out) ==
  LET st1 == ConnectProfile(st, DevicePath(st.dev, ctrl_mac, mac), mac, prof)
      st2 == Log(st1, Note("CONNECTION_STATUS_UPDATE", "connect_success", mac))
      st3 == create_loopback(st2, mac, out)
  IN IF out = "ok" THEN [st3 EXCEPT !.loopbacks = @ \cup {mac}]
     ELSE st3

\* connection_service.py 169-197: the already_connected branch
AlreadyConnected(st, mac, ctrl_mac, prof, out) ==
  LET st1 == ConnectProfile(st, DevicePath(st.dev, ctrl_mac, mac), mac, prof)
      st2 == Log(st1, Note("CONNECTION_STATUS_UPDATE", "connect_success", mac))
      st3 == create_loopback(st2, mac, out)
  IN IF mac \in st.loopbacks THEN st2
     ELSE IF out = "ok" THEN [st3 EXCEPT !.loopbacks = @ \cup {mac}]
     ELSE st3

\* a CONNECT_ONE that refreshes the target's profile and loopback first and
\* evicts afterwards
ConnectOneBody_ConnectFirst(st, mac, d, oks, prof, out) ==
  LET st1 == IF d.status = "already_connected"
             THEN AlreadyConnected(st, mac, d.controller, prof, out)
             ELSE st
  IN Evictions(st1, d.evict, oks)

\* connection_service.py 165-197: the evictions of the decision d, then the
\* already_connected branch
ConnectOneBody(st, mac, d, oks, prof, out) ==
  LET st1 == Evictions(st, d.evict, oks)
  IN IF d.status = "already_connected"
     THEN AlreadyConnected(st1, mac, d.controller, prof, out)
     ELSE st1

\* connection_service.py 150-200
DoConnectOne ==
  /\ WorkerGet("CONNECT_ONE")
  /\ LET mac == cur'.mac
         d == connect_one_plan(mac, cur'.allowed, GetManagedObjects(dev))
         st0 == St(dev, signals, routes, loopbacks, <<>>)
     IN /\ expected' = expected \cup {mac}
        /\ plan' = d
        /\ \E oks \in [1..Len(d.evict) -> BOOLEAN] :
             LET st1 == Evictions(st0, d.evict, oks)
             IN \E prof \in BOOLEAN, out \in LoopbackOutcomes(st1.dev, mac) :
                  LET st2 == ConnectOneBody(st0, mac, d, oks, prof, out)
                  IN /\ dev' = st2.dev
                     /\ signals' = st2.signals
                     /\ routes' = st2.routes
                     /\ loopbacks' = st2.loopbacks
                     /\ oplog' = st2.oplog
        /\ IF d.status = "needs_connection" /\ d.controller # ""
           THEN /\ pc' = "reconnect"
                /\ fsm' = [NoFsm EXCEPT !.adapter = d.controller]
           ELSE /\ pc' = "done"
                /\ fsm' = fsm
  /\ CountTerminals
  /\ UNCHANGED <<refcount, done, reported, nextId, envCount, p_in, p_out, scanVars>>

\* a _disconnect_everywhere that stops at the first connected device object
DisconnectEverywhere_FirstOnly(st, mac, oks) ==
  LET hit == SelectSeq(DevPaths, LAMBDA p :
                 st.dev[p].present /\ p[2] = mac /\ st.dev[p].connected)
      st1 == IF Len(hit) = 0 THEN st
             ELSE disconnect_device_dbus(st, hit[1], mac, oks[1])
  IN IF mac \in st.loopbacks
     THEN [remove_loopback_for_device(st1, mac) EXCEPT !.loopbacks = @ \ {mac}]
     ELSE st1

\* connection_service.py 379-387: the connected device objects with this
\* Address, in snapshot order, then the loopback
DisconnectEverywhere(st, mac, oks) ==
  LET hit == SelectSeq(DevPaths, LAMBDA p :
                 st.dev[p].present /\ p[2] = mac /\ st.dev[p].connected)
      f[i \in 0..Len(hit)] ==
        IF i = 0 THEN st
        ELSE disconnect_device_dbus(f[i - 1], hit[i], mac, oks[i])
      st1 == f[Len(hit)]
  IN IF mac \in st.loopbacks
     THEN [remove_loopback_for_device(st1, mac) EXCEPT !.loopbacks = @ \ {mac}]
     ELSE st1

\* connection_service.py 202-204
DoDisconnect ==
  /\ WorkerGet("DISCONNECT")
  /\ \E oks \in [1..Cardinality({h \in HciSet : dev[<<h, cur'.mac>>].connected}) -> BOOLEAN] :
       LET st == DisconnectEverywhere(St(dev, signals, routes, loopbacks, <<>>),
                                      cur'.mac, oks)
       IN /\ dev' = st.dev
          /\ signals' = st.signals
          /\ routes' = st.routes
          /\ loopbacks' = st.loopbacks
          /\ oplog' = st.oplog
  /\ pc' = "done"
  /\ CountTerminals
  /\ UNCHANGED <<expected, refcount, fsm, plan, done, reported, nextId, envCount,
                 p_in, p_out, scanVars>>

\* a LOOPBACK_SYNC that never unloads: the disconnect branch is missing
loopback_sync_NoRemove(st, mac, connected, out) ==
  IF connected /\ mac \notin st.loopbacks
  THEN IF out = "ok"
       THEN [create_loopback(st, mac, out) EXCEPT !.loopbacks = @ \cup {mac}]
       ELSE create_loopback(st, mac, out)
  ELSE st

\* a LOOPBACK_SYNC that does not look at the registry before it creates
loopback_sync_IgnoreRegistry(st, mac, connected, out) ==
  IF connected
  THEN IF out = "ok"
       THEN [create_loopback(st, mac, out) EXCEPT !.loopbacks = @ \cup {mac}]
       ELSE create_loopback(st, mac, out)
  ELSE IF mac \in st.loopbacks
  THEN [remove_loopback_for_device(st, mac) EXCEPT !.loopbacks = @ \ {mac}]
  ELSE st

\* connection_service.py 207-218: the body of the LOOPBACK_SYNC branch
loopback_sync(st, mac, connected, out) ==
  IF connected /\ mac \notin st.loopbacks
  THEN IF out = "ok"
       THEN [create_loopback(st, mac, out) EXCEPT !.loopbacks = @ \cup {mac}]
       ELSE create_loopback(st, mac, out)
  ELSE IF ~connected /\ mac \in st.loopbacks
  THEN [remove_loopback_for_device(st, mac) EXCEPT !.loopbacks = @ \ {mac}]
  ELSE st

\* connection_service.py 206-218
DoLoopbackSync ==
  /\ WorkerGet("LOOPBACK_SYNC")
  /\ \E out \in LoopbackOutcomes(dev, cur'.mac) :
       LET st == loopback_sync(St(dev, signals, routes, loopbacks, <<>>),
                               cur'.mac, cur'.connected, out)
       IN /\ routes' = st.routes
          /\ loopbacks' = st.loopbacks
          /\ oplog' = st.oplog
  /\ pc' = "done"
  /\ CountTerminals
  /\ UNCHANGED <<dev, signals, expected, refcount, fsm, plan, done, reported,
                 nextId, envCount, p_in, p_out, scanVars>>

(***************************************************************************)
(* The handshake: _try_reconnect, one action per iteration of its loop     *)
(***************************************************************************)
\* every speaker advertises the A2DP sink UUID (110b)
has_audio(mac) == mac \in MacSet

\* connection_service.py 389-414
analyze_device(d, adapter_mac, dev_mac) ==
  LET dev_path == DevicePath(d, adapter_mac, dev_mac)
  IN IF ~Exists(d, dev_path) THEN "run_discovery"
     ELSE IF d[dev_path].connected /\ has_audio(dev_mac) THEN "already_connected"
     ELSE IF ~d[dev_path].paired THEN "pair"
     ELSE IF ~d[dev_path].trusted THEN "trust"
     ELSE IF ~d[dev_path].connected THEN "connect"
     ELSE "run_discovery"

\* connection_service.py 225-240: entry of _try_reconnect
TryReconnect ==
  /\ pc = "reconnect"
  /\ fsm' = [state |-> analyze_device(dev, fsm.adapter, cur.mac),
             attempt |-> 0,
             adapter |-> fsm.adapter,
             device_path |-> DevicePath(dev, fsm.adapter, cur.mac),
             pair_failed |-> 0, removed |-> 0]
  /\ oplog' = <<Note("CONNECTION_STATUS_UPDATE", "fsm_start", cur.mac)>>
  /\ UNCHANGED terminals
  /\ pc' = "fsm"
  /\ UNCHANGED <<dev, signals, work_q, expected, loopbacks, routes, refcount, cur,
                 plan, running, done, reported, nextId, envCount, p_in, p_out, scanVars>>

\* connection_service.py 241 and 377: the loop ends when the budget is used up
AfterIteration(attempt) == IF attempt < max_retry THEN "fsm" ELSE "done"

\* what a bus call can end with; "error" is any exception but InProgress
BusOutcomes == {"ok", "InProgress", "error"}

ScanResult(rc, op, res, raised) == [refcount |-> rc, op |-> op, res |-> res, raised |-> raised]

\* an ensure_discovery that starts discovery whatever the reference count
ensure_discovery_Always(rc, start) ==
  IF start = "error" THEN ScanResult(rc, "StartDiscovery", start, TRUE)
  ELSE ScanResult(rc + 1, "StartDiscovery", start, FALSE)

\* scan_manager.py 78-92: StartDiscovery when the count is zero; InProgress is
\* swallowed, any other exception leaves before the increment
ensure_discovery(rc, start) ==
  IF rc = 0
  THEN IF start = "error" THEN ScanResult(rc, "StartDiscovery", start, TRUE)
       ELSE ScanResult(rc + 1, "StartDiscovery", start, FALSE)
  ELSE ScanResult(rc + 1, "", "", FALSE)

\* a release_discovery without the guard on a count of zero
release_discovery_NoGuard(rc, stop) ==
  IF rc - 1 = 0 THEN ScanResult(0, "StopDiscovery", stop, stop # "ok")
  ELSE ScanResult(rc - 1, "", "", FALSE)

\* scan_manager.py 94-111: a count of zero is left alone; StopDiscovery when
\* the decrement reaches zero; every exception of StopDiscovery leaves the
\* method (line 109 calls logging.log with one argument)
release_discovery(rc, stop) ==
  IF rc = 0 THEN ScanResult(0, "", "", FALSE)
  ELSE IF rc - 1 = 0 THEN ScanResult(0, "StopDiscovery", stop, stop # "ok")
  ELSE ScanResult(rc - 1, "", "", FALSE)

\* the hci name of the adapter with this Address
HciOf(adapter_mac) == CHOOSE h \in HciSet : AdapterAddr[h] = adapter_mac

\* what wait_for_device can end with when the device is not in the tree yet:
\* it appears, the deadline passes, or a bus call of the lookup raises
WaitOutcomes == {"found", "none", "raise"}

\* connection_service.py 262-266: what the try/finally around
\* ensure_discovery, wait_for_device and release_discovery ends with: "raise"
\* when ensure_discovery, wait_for_device or release_discovery raised,
\* "found", or "timeout"
\* (scan_manager.py 109 calls logging.log with one argument, so the branch
\* that tolerates InProgress from StopDiscovery raises TypeError)
DiscoveryResult(ensure_raised, wait, release_raised) ==
  IF ensure_raised \/ wait = "raise" \/ release_raised THEN "raise"
  ELSE IF wait = "found" THEN "found"
  ELSE "timeout"

\* a loop that goes round again after a discovery timeout
AfterDiscovery_RetryOnTimeout(res) ==
  IF res = "raise" THEN "dead" ELSE "fsm"

\* connection_service.py 262-284: where the worker stands after the discovery:
\* an exception leaves _run_worker, a timeout breaks out of the loop, a found
\* device lets the loop go on
AfterDiscovery(res) ==
  IF res = "raise" THEN "dead" ELSE IF res = "timeout" THEN "done" ELSE "fsm"

\* connection_service.py 255-284: state run_discovery
FsmDiscovery ==
  /\ pc = "fsm" /\ fsm.state = "run_discovery"
  /\ \E start \in BusOutcomes, w \in WaitOutcomes, stop \in BusOutcomes :
       LET h == HciOf(fsm.adapter)
           path == DevicePath(dev, fsm.adapter, cur.mac)
           present == Exists(dev, path)
           e == ensure_discovery(refcount[h], start)
           wait == IF e.raised THEN "raise"
                   ELSE IF present /\ w # "raise" THEN "found" ELSE w
           r == release_discovery(e.refcount, stop)
           res == DiscoveryResult(e.raised, wait, r.raised)
           ol0 == <<Note("CONNECTION_STATUS_UPDATE", "discovery_start", cur.mac)>>
           ol1 == IF e.op = "" THEN ol0
                  ELSE Append(ol0, Entry(e.op, fsm.adapter, "",
                                         IF e.raised THEN "raise" ELSE "ok"))
           ol2 == Append(ol1, Entry("release_discovery", fsm.adapter, "",
                                    IF r.raised THEN "raise" ELSE "ok"))
           ol3 == IF r.op = "" THEN ol2
                  ELSE Append(ol2, Entry(r.op, fsm.adapter, "",
                                         IF r.raised THEN "raise" ELSE "ok"))
       IN /\ refcount' = [refcount EXCEPT ![h] = r.refcount]
          /\ dev' = IF ~e.raised /\ ~present /\ wait = "found" /\ path \in Paths
                    THEN [dev EXCEPT ![path].present = TRUE]
                    ELSE dev
          /\ pc' = AfterDiscovery(res)
          /\ CASE res = "raise" ->
                    /\ fsm' = fsm
                    /\ oplog' = ol3
               [] res = "timeout" ->
                    /\ fsm' = fsm
                    /\ oplog' = Append(ol3, Note("ERROR", "discovery_timeout", cur.mac))
               [] OTHER ->
                    /\ fsm' = [fsm EXCEPT !.state = "pair", !.device_path = path]
                    /\ oplog' = Append(ol3, Note("CONNECTION_STATUS_UPDATE",
                                                 "discovery_complete", cur.mac))
  /\ CountTerminals
  /\ UNCHANGED <<signals, work_q, expected, loopbacks, routes, cur, plan,
                 running, done, reported, nextId, envCount, p_in, p_out, scanVars>>

\* a failed pairing that leaves the device object where it is
remove_device_dbus_Skip(st, path, mac, ok) == st

\* bt_helpers.py 47-56: RemoveDevice forgets the device object
remove_device_dbus(st, path, mac, ok) ==
  IF Exists(st.dev, path) /\ ok
  THEN Log([st EXCEPT !.dev[path] = Absent,
                      !.signals = IF st.dev[path].connected
                                  THEN Append(@, PropSignal(path[1], mac, FALSE))
                                  ELSE @],
           Entry("RemoveDevice", PathHci(path), mac, "ok"))
  ELSE Log(st, Entry("RemoveDevice", PathHci(path), mac, "fail"))

\* connection_service.py 286-311: state pair (bt_helpers.py 31-44)
FsmPair ==
  /\ pc = "fsm" /\ fsm.state = "pair"
  /\ \E ok \in BOOLEAN, rm \in BOOLEAN :
       LET path == fsm.device_path
           paired == ok /\ Exists(dev, path)
           st0 == Log(St(dev, signals, routes, loopbacks, <<>>),
                      Note("CONNECTION_STATUS_UPDATE", "pairing_start", cur.mac))
           st1 == IF paired
                  THEN Log(Log([st0 EXCEPT !.dev[path].paired = TRUE],
                               Entry("Pair", PathHci(path), cur.mac, "ok")),
                           Note("CONNECTION_STATUS_UPDATE", "pairing_success", cur.mac))
                  ELSE Log(remove_device_dbus(
                             Log(st0, Entry("Pair", PathHci(path), cur.mac, "fail")),
                             path, cur.mac, rm),
                           Note("ERROR", "pairing_failed", cur.mac))
       IN /\ dev' = st1.dev
          /\ signals' = st1.signals
          /\ oplog' = st1.oplog
          /\ IF paired
             THEN /\ fsm' = [fsm EXCEPT !.state = "trust"]
                  /\ pc' = "fsm"
             ELSE /\ fsm' = [fsm EXCEPT !.state = "run_discovery", !.attempt = @ + 1,
                                        !.pair_failed = @ + 1,
                                        !.removed = @ + Len(SelectSeq(st1.oplog,
                                           LAMBDA e : e.op = "RemoveDevice"))]
                  /\ pc' = AfterIteration(fsm.attempt + 1)
  /\ CountTerminals
  /\ UNCHANGED <<work_q, expected, loopbacks, routes, refcount, cur, plan, running,
                 done, reported, nextId, envCount, p_in, p_out, scanVars>>

\* a trust state that treats a failed Trust like a failed pairing
AfterTrust_FailureRetries(f, trusted) ==
  IF trusted THEN [f EXCEPT !.state = "connect"]
  ELSE [f EXCEPT !.state = "pair", !.attempt = @ + 1]

\* connection_service.py 314-315: the result of trust_device_dbus is dropped
\* and the next state is connect
AfterTrust(f, trusted) == [f EXCEPT !.state = "connect"]

\* connection_service.py 313-321: state trust (bt_helpers.py 20-28)
FsmTrust ==
  /\ pc = "fsm" /\ fsm.state = "trust"
  /\ \E ok \in BOOLEAN :
       LET path == fsm.device_path
           trusted == ok /\ Exists(dev, path)
       IN /\ dev' = IF trusted THEN [dev EXCEPT ![path].trusted = TRUE] ELSE dev
          /\ oplog' = 
               <<Entry("Trust", PathHci(path), cur.mac, IF trusted THEN "ok" ELSE "fail"),
                 Note("CONNECTION_STATUS_UPDATE", "trusting", cur.mac)>>
          /\ fsm' = AfterTrust(fsm, trusted)
          /\ pc' = AfterIteration(fsm'.attempt)
  /\ CountTerminals
  /\ UNCHANGED <<signals, work_q, expected, loopbacks, routes, refcount, cur, plan,
                 running, done, reported, nextId, envCount, p_in, p_out, scanVars>>

\* a failed connect that goes back to discovery
ConnectFailed_Rediscover(f) ==
  [f EXCEPT !.state = "run_discovery", !.attempt = @ + 1]

\* connection_service.py 374-375: a failed connect falls back to pair and
\* uses up one attempt
ConnectFailed(f) == [f EXCEPT !.state = "pair", !.attempt = @ + 1]

\* connection_service.py 323-375: state connect (bt_helpers.py 9-17)
FsmConnect ==
  /\ pc = "fsm" /\ fsm.state = "connect"
  /\ \E ok \in BOOLEAN, prof \in BOOLEAN, out \in {"ok", "nosink", "loadfail"} :
       LET path == fsm.device_path
           connected == ok /\ Exists(dev, path)
           st0 == Log(St(dev, signals, routes, loopbacks, <<>>),
                      Note("CONNECTION_STATUS_UPDATE", "connect_start", cur.mac))
           st1 == Log([st0 EXCEPT !.dev[path].connected = TRUE,
                                  !.signals = IF dev[path].connected THEN @
                                              ELSE Append(@, PropSignal(path[1], cur.mac, TRUE))],
                      Entry("Connect", PathHci(path), cur.mac, "ok"))
           st2 == ConnectProfile(st1, DevicePath(st1.dev, fsm.adapter, cur.mac), cur.mac, prof)
           st3 == create_loopback(
                    Log(st2, Note("CONNECTION_STATUS_UPDATE", "connect_success", cur.mac)),
                    cur.mac, out)
           st4 == IF out = "ok" THEN [st3 EXCEPT !.loopbacks = @ \cup {cur.mac}]
                  ELSE Log(st3, Note("ERROR", "loopback creation failed", cur.mac))
           st5 == Log(Log(st0, Entry("Connect", PathHci(path), cur.mac, "fail")),
                      Note("ERROR", "connect_failed", cur.mac))
           st == IF connected THEN st4 ELSE st5
       IN /\ dev' = st.dev
          /\ signals' = st.signals
          /\ routes' = st.routes
          /\ loopbacks' = st.loopbacks
          /\ oplog' = st.oplog
          /\ IF connected
             THEN /\ fsm' = fsm
                  /\ pc' = "done"
             ELSE /\ fsm' = ConnectFailed(fsm)
                  /\ pc' = AfterIteration(fsm.attempt + 1)
  /\ CountTerminals
  /\ UNCHANGED <<work_q, expected, refcount, cur, plan, running, done, reported,
                 nextId, envCount, p_in, p_out, scanVars>>

\* connection_service.py 241-254: a state no branch of the loop handles
\* (already_connected) leaves state and attempt as they are, so the loop
\* never ends
FsmSpin ==
  /\ pc = "fsm"
  /\ fsm.state \notin {"run_discovery", "pair", "trust", "connect"}
  /\ pc' = "spin"
  /\ UNCHANGED <<dev, signals, work_q, expected, loopbacks, routes, refcount, cur,
                 fsm, plan, oplog, terminals, running, done, reported, nextId, envCount,
                 p_in, p_out, scanVars>>

Next ==
  \/ Submit
  \/ EnvConnect
  \/ EnvDisconnect
  \/ EnvOther
  \/ OnPropsChanged
  \/ DoSetExpected
  \/ DoConnectOne
  \/ DoDisconnect
  \/ DoLoopbackSync
  \/ TryReconnect
  \/ FsmDiscovery
  \/ FsmPair
  \/ FsmTrust
  \/ FsmConnect
  \/ FsmSpin
  \/ Finish

Spec == Init /\ [][Next]_vars

TypeOK ==
  /\ pc \in {"idle", "reconnect", "fsm", "spin", "done", "dead"}
  /\ expected \subseteq MacSet
  /\ loopbacks \subseteq MacSet
  /\ routes \subseteq MacSet

(***************************************************************************)
(* Properties of the service                                               *)
(***************************************************************************)
\* C1: with one service instance, whatever the interleaving of submit() calls
\* and bus events, at most one command is being executed at any time, and bus
\* or audio operations are issued only by the command being executed, so no
\* two of them overlap.
C1_SingleWriter ==
  /\ Cardinality(running) <= 1
  /\ oplog # <<>> => running = {cur.id}
  /\ pc = "idle" <=> running = {}

\* a handshake is under way while another mutating command waits in the queue
\* and a bus signal is pending
C1_Witness ==
  /\ pc = "fsm"
  /\ \E i \in 1..Len(work_q) : work_q[i].intent \in {"CONNECT_ONE", "DISCONNECT"}
  /\ signals # <<>>

LaterSync(q, mac) ==
  \E i \in 1..Len(q) : q[i].intent = "LOOPBACK_SYNC" /\ q[i].mac = mac

\* the worker executes the last LOOPBACK_SYNC that the reported changes of
\* its mac have produced
SyncDrained ==
  /\ pc = "idle" /\ pc' = "done"
  /\ cur'.intent = "LOOPBACK_SYNC"
  /\ ~LaterSync(work_q', cur'.mac)

\* C3 as stated: once the worker has drained the LOOPBACK_SYNC commands that
\* the Connected changes of an expected mac produced, the mac is in the
\* Loopback Registry exactly when its last reported Connected value is true.
C3_RegistryEqualsLastReported ==
  [][SyncDrained => (cur'.mac \in loopbacks' <=> reported[cur'.mac] = "up")]_vars

CreatedOk(log, mac) ==
  \E i \in 1..Len(log) :
    log[i].op = "create_loopback" /\ log[i].mac = mac /\ log[i].res = "ok"

\* C3 as amended: after the drain the mac is out of the registry when its last
\* reported Connected value is false; when it is true the mac is in the
\* registry exactly if it was there already or the loopback creation of the
\* sync succeeded.
C3_RegistryFollowsLastReported ==
  [][SyncDrained =>
       IF reported[cur'.mac] = "up"
       THEN cur'.mac \in loopbacks' <=>
              (cur'.mac \in loopbacks \/ CreatedOk(oplog', cur'.mac))
       ELSE reported[cur'.mac] = "down" /\ cur'.mac \notin loopbacks']_vars

\* the last sync of a mac reported disconnected, then connected, has run, no
\* signal is pending, and the mac is in the registry with a fresh route
C3_Witness ==
  /\ pc = "done" /\ cur.intent = "LOOPBACK_SYNC" /\ cur.connected
  /\ ~LaterSync(work_q, cur.mac)
  /\ signals = <<>>
  /\ reported[cur.mac] = "up"
  /\ CreatedOk(oplog, cur.mac)
  /\ cur.mac \in loopbacks

\* the registry holds exactly the macs that are connected and have a route
\* that was created and not since removed
RegistryConsistent ==
  \A m \in MacSet : m \in loopbacks <=> (ConnectedSomewhere(dev, m) /\ m \in routes)

\* C4: the commands keep the registry consistent: a step of the worker that
\* ends a CONNECT_ONE (evictions included), a DISCONNECT or a LOOPBACK_SYNC,
\* taken while a mac is in the registry iff it is connected and routed, leaves
\* the worker in a state where that is still so.
C4_CommandsKeepRegistryConsistent ==
  [][(pc # "done" /\ pc' = "done" /\ RegistryConsistent) => RegistryConsistent']_vars

\* C5: commands are executed in the order in which they were enqueued: when a
\* command is being executed or is over, every command enqueued before it is
\* over (ids are given in enqueue order).
C5_Fifo ==
  \A y \in running \cup done : \A x \in 1..(y - 1) : x \in done

\* the service started on an empty object tree; the first command connected
\* S1 through the handshake, and the DISCONNECT of S1 enqueued after it has
\* just disconnected the link that the first command made
C5_Witness ==
  /\ pc = "done" /\ cur.intent = "DISCONNECT" /\ cur.mac = "S1" /\ cur.id = 2
  /\ done = {1}
  /\ dev[<<"hci1", "S2">>] = Absent
  /\ "S1" \in expected
  /\ \E i \in 1..Len(oplog) : oplog[i].op = "Disconnect" /\ oplog[i].res = "ok"

\* C6: when a CONNECT_ONE or a DISCONNECT is over, exactly one terminal
\* notification was sent for its target mac.
C6_OneTerminalNotification ==
  (pc = "done" /\ cur.intent \in {"CONNECT_ONE", "DISCONNECT"}) => terminals = 1

\* C7: no failure of a bus or audio operation ends the worker thread, so the
\* commands enqueued afterwards can still be taken.
C7_WorkerSurvives == pc # "dead"

\* the step in which the worker plans a CONNECT_ONE and executes its evictions
EvictionStep == pc = "idle" /\ pc' \in {"done", "reconnect"} /\ cur'.intent = "CONNECT_ONE"

\* C8 as stated: after the evictions of a CONNECT_ONE every (device, adapter)
\* pair of the evict list is disconnected.
C8_EvictedAreDisconnected ==
  [][EvictionStep =>
       \A i \in 1..Len(plan'.evict) :
         LET path == DevicePath(dev', plan'.evict[i][2], plan'.evict[i][1])
         IN ~(path \in Paths /\ dev'[path].connected)]_vars

Disconnects(log) == SelectSeq(log, LAMBDA e : e.op = "Disconnect")

\* C8 as amended: the worker calls Disconnect once for every pair of the evict
\* list, in list order, on the device object under the named adapter; a pair
\* whose call succeeded is disconnected after the evictions, and a pair whose
\* call failed is left as it was.
C8_EvictionsAttempted ==
  [][EvictionStep =>
       /\ Len(Disconnects(oplog')) = Len(plan'.evict)
       /\ \A i \in 1..Len(plan'.evict) :
            LET e == Disconnects(oplog')[i]
                hci == HciOfAddr(GetManagedObjects(dev), plan'.evict[i][2])
                path == <<hci, plan'.evict[i][1]>>
            IN /\ e.mac = plan'.evict[i][1]
               /\ e.arg = hci
               /\ path \in Paths
               /\ e.res = "ok" => ~dev'[path].connected
               /\ e.res = "fail" => dev'[path] = dev[path]]_vars

\* a CONNECT_ONE has just evicted two devices, both calls succeeded and both
\* devices are disconnected
C8_Witness ==
  /\ cur.intent = "CONNECT_ONE"
  /\ Len(plan.evict) = 2
  /\ Len(Disconnects(oplog)) = 2
  /\ \A i \in 1..2 :
       /\ Disconnects(oplog)[i].res = "ok"
       /\ ~dev[<<HciOfAddr(GetManagedObjects(dev), plan.evict[i][2]), plan.evict[i][1]>>].connected

\* the states of the loop of _try_reconnect that a branch of its body handles
HandledStates == {"run_discovery", "pair", "trust", "connect"}

\* C11: every handshake run terminates, and it counts at most max_retry
\* failed pair and connect operations over the whole walk: while the loop of
\* the handshake runs, its state is one that an iteration acts on and the
\* failures counted so far are below the budget.
C11_HandshakeTerminates ==
  pc \in {"fsm", "spin"} => (fsm.state \in HandledStates /\ fsm.attempt < max_retry)

\* a step of the bus dispatch thread: it is the only one that takes a signal
HandlerStep == Len(signals') < Len(signals)

\* C12: handling a property-change event changes neither the Expected Set nor
\* the Loopback Registry and invokes no Bluetooth or audio operation; at most
\* it enqueues one LOOPBACK_SYNC, and it does so only when the change is on a
\* device object, includes Connected, and the mac is in the Expected Set.
C12_HandlerOnlyEnqueues ==
  [][HandlerStep =>
       /\ expected' = expected /\ loopbacks' = loopbacks
       /\ dev' = dev /\ routes' = routes /\ refcount' = refcount /\ oplog' = oplog
       /\ \/ work_q' = work_q
          \/ /\ Len(work_q') = Len(work_q) + 1
             /\ SubSeq(work_q', 1, Len(work_q)) = work_q
             /\ work_q'[Len(work_q')].intent = "LOOPBACK_SYNC"
             /\ work_q'[Len(work_q')].mac = Head(signals).mac
             /\ work_q'[Len(work_q')].connected = Head(signals).connected
             /\ Head(signals).iface = "org.bluez.Device1"
             /\ "Connected" \in Head(signals).props
             /\ Head(signals).mac \in expected]_vars

\* the handler has enqueued a LOOPBACK_SYNC for an expected mac behind a
\* command that was waiting, and has dropped every other signal
C12_Witness ==
  /\ Len(work_q) = 2
  /\ work_q[2].intent = "LOOPBACK_SYNC" /\ work_q[2].mac \in expected
  /\ work_q[1].intent # "LOOPBACK_SYNC"
  /\ signals = <<>>

(***************************************************************************)
(* ScanManager: ensure_discovery and release_discovery called by any       *)
(* number of threads.  Each call runs under self._lock, so a call is one   *)
(* step.                                                                   *)
(***************************************************************************)
\* calls of ensure_discovery and release_discovery, in all
MaxScanCalls == 5

ScanInit ==
  /\ SvcQuiet
  /\ p_in = NoInput
  /\ p_out = NoPlan
  /\ ScanQuiet

\* the effect of one call on the harness state
ScanCall(fn, h, r) ==
  /\ refcount' = [refcount EXCEPT ![h] = r.refcount]
  /\ scan_call' = [fn |-> fn, adapter |-> h, op |-> r.op, res |-> r.res,
                   raised |-> r.raised]
  /\ last_op' = IF r.op = "" THEN last_op
                ELSE [last_op EXCEPT ![h] = [op |-> r.op, res |-> r.res]]
  /\ scan_calls' = scan_calls + 1
  /\ UNCHANGED waitVars
  /\ UNCHANGED <<dev, signals, work_q, expected, loopbacks, routes, pc, cur, fsm,
                 plan, oplog, terminals, running, done, reported, nextId, envCount,
                 p_in, p_out>>

\* some thread calls ensure_discovery(adapter_mac)
EnsureDiscovery ==
  /\ scan_calls < MaxScanCalls
  /\ \E h \in HciSet, start \in BusOutcomes :
       ScanCall("ensure_discovery", h, ensure_discovery(refcount[h], start))

\* some thread calls release_discovery(adapter_mac)
ReleaseDiscovery ==
  /\ scan_calls < MaxScanCalls
  /\ \E h \in HciSet, stop \in BusOutcomes :
       ScanCall("release_discovery", h, release_discovery(refcount[h], stop))

ScanNext == EnsureDiscovery \/ ReleaseDiscovery

ScanSpec == ScanInit /\ [][ScanNext]_vars

\* C13 as stated: StartDiscovery is invoked only by a call that finds the
\* reference count at zero, StopDiscovery only by a call that brings it back
\* to zero, and no StartDiscovery follows a StartDiscovery on the same adapter
\* without a StopDiscovery between them.
C13_StartStopAlternate ==
  [][scan_calls' # scan_calls =>
       LET h == scan_call'.adapter
       IN /\ scan_call'.op = "StartDiscovery" =>
               (refcount[h] = 0 /\ last_op[h].op # "StartDiscovery")
          /\ scan_call'.op = "StopDiscovery" =>
               (refcount[h] = 1 /\ refcount'[h] = 0)]_vars

\* C13 as amended: StartDiscovery is invoked only by a call that finds the
\* count at zero and StopDiscovery only by a call that brings it back to zero;
\* a StartDiscovery follows a StartDiscovery on the same adapter without a
\* StopDiscovery between them only when the earlier one raised an error other
\* than InProgress, which left the count at zero.
C13_StartsSeparatedUnlessFailed ==
  [][scan_calls' # scan_calls =>
       LET h == scan_call'.adapter
       IN /\ scan_call'.op = "StartDiscovery" =>
               /\ refcount[h] = 0
               /\ last_op[h].op = "StartDiscovery" => last_op[h].res = "error"
          /\ scan_call'.op = "StopDiscovery" =>
               (refcount[h] = 1 /\ refcount'[h] = 0)]_vars

\* a second caller has joined a running scan: its ensure_discovery made no
\* bus call and the count of the adapter is two
C13_Witness ==
  /\ scan_call.fn = "ensure_discovery" /\ scan_call.op = ""
  /\ refcount[scan_call.adapter] = 2
  /\ last_op[scan_call.adapter] = [op |-> "StartDiscovery", res |-> "ok"]

\* C14: when the planner returns error for a CONNECT_ONE, the worker reports
\* a failure for the target mac on the notification channel and starts no
\* handshake.
C14_PlannerErrorReported ==
  [][(pc = "idle" /\ pc' # "idle" /\ cur'.intent = "CONNECT_ONE" /\ plan'.status = "error") =>
       /\ pc' = "done"
       /\ \E i \in 1..Len(oplog') :
            /\ oplog'[i].op = "notify" /\ oplog'[i].arg = "ERROR"
            /\ oplog'[i].mac = cur'.mac]_vars

\* the step in which the worker executes a DISCONNECT
DisconnectStep == pc = "idle" /\ pc' = "done" /\ cur'.intent = "DISCONNECT"

\* C15: executing DISCONNECT(mac) invokes Disconnect on every device object
\* with that address that the snapshot shows connected, once per adapter, and
\* afterwards mac is not in the Loopback Registry.
C15_DisconnectEverywhere ==
  [][DisconnectStep =>
       /\ \A h \in HciSet :
            (dev[<<h, cur'.mac>>].present /\ dev[<<h, cur'.mac>>].connected) =>
              Cardinality({i \in 1..Len(oplog') :
                 /\ oplog'[i].op = "Disconnect"
                 /\ oplog'[i].arg = h /\ oplog'[i].mac = cur'.mac}) = 1
       /\ cur'.mac \notin loopbacks']_vars

\* a DISCONNECT found its mac connected on two adapters and in the registry:
\* both links were disconnected and the loopback was removed once more for
\* the registry entry
C15_Witness ==
  /\ pc = "done" /\ cur.intent = "DISCONNECT"
  /\ Len(Disconnects(oplog)) = 2
  /\ Disconnects(oplog)[1].arg # Disconnects(oplog)[2].arg
  /\ \A i \in 1..2 : Disconnects(oplog)[i].res = "ok"
  /\ Len(SelectSeq(oplog, LAMBDA e : e.op = "remove_loopback")) = 3
  /\ cur.mac \notin loopbacks
  /\ ~ConnectedSomewhere(dev, cur.mac)

\* C16: for every interleaving of SET_EXPECTED commands and bus events, a
\* LOOPBACK_SYNC changes the Loopback Registry only for a mac that is in the
\* Expected Set when the command is executed.
C16_SyncOnlyForExpected ==
  [][(pc = "idle" /\ pc' = "done" /\ cur'.intent = "LOOPBACK_SYNC"
        /\ loopbacks' # loopbacks) =>
       \A m \in MacSet : (m \in loopbacks' <=> m \notin loopbacks) => m \in expected]_vars

\* the operations that connect the target or route its audio
ConnectionOps == {"ConnectProfile", "create_loopback", "Pair", "Trust", "Connect"}

\* C17: within one CONNECT_ONE the worker adds the target to the Expected
\* Set, computes the plan on the snapshot it read, executes every listed
\* eviction, and only then attempts the profile connect and the loopback or
\* leaves for the handshake: no connection operation on the target precedes
\* an eviction of the same command.
C17_EvictionsFirst ==
  [][EvictionStep =>
       /\ cur'.mac \in expected'
       /\ plan' = connect_one_plan(cur'.mac, cur'.allowed, GetManagedObjects(dev))
       /\ Len(Disconnects(oplog')) = Len(plan'.evict)
       /\ \A i, j \in 1..Len(oplog') :
            (oplog'[i].op = "Disconnect" /\ oplog'[j].op \in ConnectionOps) => i < j
       /\ pc' = "reconnect" =>
            \A i \in 1..Len(oplog') : oplog'[i].op \notin ConnectionOps]_vars

\* a CONNECT_ONE of a connected target has evicted two devices and then
\* connected the audio profile and created the loopback
C17_Witness ==
  /\ pc = "done" /\ cur.intent = "CONNECT_ONE"
  /\ plan.status = "already_connected"
  /\ Len(plan.evict) = 2 /\ Len(Disconnects(oplog)) = 2
  /\ cur.mac \in expected
  /\ \E i \in 1..Len(oplog) : oplog[i].op = "ConnectProfile"
  /\ CreatedOk(oplog, cur.mac)

(***************************************************************************)
(* Properties of the decisions of the planner                              *)
(***************************************************************************)
\* the connected device objects of a snapshot under a non-reserved adapter
\* whose address is in macs, in snapshot order
ConnectedOnFree(objects, macs) ==
  SelectSeq(objects, LAMBDA o :
    o.kind = "device" /\ o.connected /\ o.hci \in FreeHcis /\ o.addr \in macs)

\* C18: whatever the status, every device that the snapshot shows connected
\* on a non-reserved adapter and that is neither the target nor in the allowed
\* list is in the evict list, paired with that adapter.
C18_StrangersEvicted ==
  p_out # NoPlan =>
    LET strangers == ConnectedOnFree(p_in.objects,
                       MacSet \ (p_in.allowed \cup {p_in.target}))
    IN \A i \in 1..Len(strangers) :
         <<strangers[i].addr, AdapterAddr[strangers[i].hci]>> \in Range(p_out.evict)

\* the target needs a connection and gets the adapter on which an
\* out-of-config device is connected: the decision evicts that device there
C18_Witness ==
  /\ p_out.status = "needs_connection"
  /\ Len(p_out.evict) = 1
  /\ p_out.evict[1][1] \notin p_in.allowed \cup {p_in.target}
  /\ p_out.evict[1][2] = p_out.controller
  /\ Len(ConnectedOnFree(p_in.objects, {p_out.evict[1][1]})) = 1

\* C19: if the target is connected on exactly one non-reserved adapter and no
\* other in-config speaker is connected on that adapter, the decision is
\* already_connected with that adapter, and the evict list holds only
\* out-of-config devices that the snapshot shows connected (so it is empty
\* when there is none).
C19_SoleConnectionKept ==
  LET mine == ConnectedOnFree(p_in.objects, {p_in.target})
      others == ConnectedOnFree(p_in.objects,
                  p_in.allowed \ {p_in.target})
      strangers == ConnectedOnFree(p_in.objects,
                     MacSet \ (p_in.allowed \cup {p_in.target}))
  IN (/\ p_out # NoPlan
      /\ Len(mine) = 1
      /\ \A i \in 1..Len(others) : others[i].hci # mine[1].hci) =>
       /\ p_out.status = "already_connected"
       /\ p_out.controller = AdapterAddr[mine[1].hci]
       /\ \A j \in 1..Len(p_out.evict) :
            \E i \in 1..Len(strangers) :
              p_out.evict[j] = <<strangers[i].addr, AdapterAddr[strangers[i].hci]>>

\* the target is connected once and shares its adapter with an out-of-config
\* device only, while an in-config speaker is on the other adapter: the
\* decision keeps the adapter and evicts the out-of-config device
C19_Witness ==
  LET mine == ConnectedOnFree(p_in.objects, {p_in.target})
      others == ConnectedOnFree(p_in.objects,
                  p_in.allowed \ {p_in.target})
  IN /\ p_out.status = "already_connected"
     /\ p_in.target \in p_in.allowed
     /\ Len(mine) = 1
     /\ Len(others) = 1 /\ others[1].hci # mine[1].hci
     /\ Len(p_out.evict) = 1
     /\ p_out.evict[1][2] = AdapterAddr[mine[1].hci]

\* C20: if the target is connected on more than one non-reserved adapter, the
\* decision is already_connected, the controller is the adapter of the first
\* of the target's connected device objects in snapshot order, and the evict
\* list holds (target, a) exactly for every other adapter a on which the
\* target is connected.
C20_KeepFirstEvictRest ==
  LET mine == ConnectedOnFree(p_in.objects, {p_in.target})
  IN (p_out # NoPlan /\ Len(mine) > 1) =>
       /\ p_out.status = "already_connected"
       /\ p_out.controller = AdapterAddr[mine[1].hci]
       /\ \A i \in 2..Len(mine) :
            Cardinality({j \in 1..Len(p_out.evict) :
               p_out.evict[j] = <<p_in.target, AdapterAddr[mine[i].hci]>>}) = 1
       /\ \A j \in 1..Len(p_out.evict) :
            p_out.evict[j][1] = p_in.target =>
              \E i \in 2..Len(mine) : p_out.evict[j][2] = AdapterAddr[mine[i].hci]

\* the target is connected on both free adapters and its device object under
\* hci2 comes first in the snapshot: hci2 is kept and hci1 is evicted
C20_Witness ==
  LET mine == ConnectedOnFree(p_in.objects, {p_in.target})
  IN /\ p_out.status = "already_connected"
     /\ Len(mine) = 2 /\ mine[1].hci = "hci2"
     /\ p_out.controller = AdapterAddr["hci2"]
     /\ <<p_in.target, AdapterAddr["hci1"]>> \in Range(p_out.evict)

\* the non-reserved adapters on which the snapshot shows a device of macs
\* connected
OccupiedBy(objects, macs) ==
  {o.hci : o \in Range(ConnectedOnFree(objects, macs))}

\* the speakers of macs that the snapshot shows connected on more than one
\* non-reserved adapter
Duplicated(objects, macs) ==
  {m \in macs : Cardinality(OccupiedBy(objects, {m})) > 1}

\* the target is connected on exactly one non-reserved adapter, on which
\* another in-config speaker is connected too
TargetShares ==
  LET mine == ConnectedOnFree(p_in.objects, {p_in.target})
  IN /\ p_out # NoPlan
     /\ Len(mine) = 1
     /\ mine[1].hci \in OccupiedBy(p_in.objects, p_in.allowed \ {p_in.target})

\* the decision evicts in-config speaker m, connected on several adapters,
\* from the adapter that it hands out
DuplicateFreed(m) ==
  /\ m \in Duplicated(p_in.objects, p_in.allowed \ {p_in.target})
  /\ p_out.status = "needs_connection"
  /\ <<m, p_out.controller>> \in Range(p_out.evict)
  /\ \E h \in OccupiedBy(p_in.objects, {m}) : AdapterAddr[h] = p_out.controller

\* C21 as stated: if the target is connected on exactly one adapter that it
\* shares with another in-config speaker, the decision evicts the target from
\* that adapter and is needs_connection on an adapter without in-config
\* occupant; if there is no such adapter, it evicts a duplicated in-config
\* speaker from one of its adapters and is needs_connection on that adapter.
C21_SharedTargetMoves ==
  LET mine == ConnectedOnFree(p_in.objects, {p_in.target})
      others == p_in.allowed \ {p_in.target}
      free == FreeHcis \ OccupiedBy(p_in.objects, others)
  IN TargetShares =>
       /\ <<p_in.target, AdapterAddr[mine[1].hci]>> \in Range(p_out.evict)
       /\ p_out.status = "needs_connection"
       /\ IF free # {}
          THEN \E h \in free : p_out.controller = AdapterAddr[h]
          ELSE \E m \in others : DuplicateFreed(m)

\* C21, amended: as above, and when no adapter is without in-config occupant
\* and no in-config speaker is connected on more than one adapter, the
\* decision is error, with the target still in the evict list.
C21_SharedTargetMovesOrError ==
  LET mine == ConnectedOnFree(p_in.objects, {p_in.target})
      others == p_in.allowed \ {p_in.target}
      free == FreeHcis \ OccupiedBy(p_in.objects, others)
  IN TargetShares =>
       /\ <<p_in.target, AdapterAddr[mine[1].hci]>> \in Range(p_out.evict)
       /\ IF free # {}
          THEN /\ p_out.status = "needs_connection"
               /\ \E h \in free : p_out.controller = AdapterAddr[h]
          ELSE IF Duplicated(p_in.objects, others) # {}
          THEN \E m \in others : DuplicateFreed(m)
          ELSE p_out.status = "error" /\ p_out.controller = ""

\* the target shares hci1 with a speaker that is also connected on hci2: no
\* adapter is free, the speaker is evicted and its adapter handed out
C21_Witness ==
  /\ TargetShares
  /\ FreeHcis \ OccupiedBy(p_in.objects, p_in.allowed \ {p_in.target}) = {}
  /\ \E m \in p_in.allowed \ {p_in.target} : DuplicateFreed(m)
  /\ Len(p_out.evict) = 2

\* C22: if the target is connected on no non-reserved adapter and some
\* non-reserved adapter has no connected in-config speaker, the decision is
\* needs_connection on the first such adapter in the order of the snapshot's
\* adapter objects; out-of-config devices do not occupy an adapter, and every
\* one of them that is connected there is in the evict list.
C22_FirstFreeAdapter ==
  LET others == p_in.allowed \ {p_in.target}
      strangers == ConnectedOnFree(p_in.objects, MacSet \ (others \cup {p_in.target}))
      freeAds == SelectSeq(p_in.objects, LAMBDA o :
                   /\ o.kind = "adapter" /\ o.hci \in FreeHcis
                   /\ o.hci \notin OccupiedBy(p_in.objects, others))
  IN (/\ p_out # NoPlan
      /\ Len(ConnectedOnFree(p_in.objects, {p_in.target})) = 0
      /\ Len(freeAds) > 0) =>
       /\ p_out.status = "needs_connection"
       /\ p_out.controller = AdapterAddr[freeAds[1].hci]
       /\ \A i \in 1..Len(strangers) :
            strangers[i].hci = freeAds[1].hci =>
              <<strangers[i].addr, p_out.controller>> \in Range(p_out.evict)

\* hci2 precedes hci1 in the snapshot, an in-config speaker is on neither but
\* an out-of-config device is connected on hci2: hci2 is handed out and the
\* device is evicted from it
C22_Witness ==
  LET ads == SelectSeq(p_in.objects, LAMBDA o :
               o.kind = "adapter" /\ o.hci \in FreeHcis)
  IN /\ p_out.status = "needs_connection"
     /\ Len(ConnectedOnFree(p_in.objects, {p_in.target})) = 0
     /\ ads[1].hci = "hci2"
     /\ p_out.controller = AdapterAddr["hci2"]
     /\ OccupiedBy(p_in.objects, MacSet \ (p_in.allowed \cup {p_in.target})) = {"hci2"}
     /\ Len(p_out.evict) = 1 /\ p_out.evict[1][2] = AdapterAddr["hci2"]

\* the target is connected on no non-reserved adapter and an in-config
\* speaker is connected on every one of them
AllOccupied ==
  /\ p_out # NoPlan
  /\ Len(ConnectedOnFree(p_in.objects, {p_in.target})) = 0
  /\ OccupiedBy(p_in.objects, p_in.allowed \ {p_in.target}) = FreeHcis

\* the snapshot of the example: three speakers in config, S1 connected on
\* hci1, S2 connected on hci2 and on hci1, and the target S3
DuplicateExample ==
  /\ p_out # NoPlan
  /\ p_in.target = "S3" /\ p_in.allowed = MacSet
  /\ {<<o.hci, o.addr>> : o \in Range(ConnectedOnFree(p_in.objects, MacSet))}
       = {<<"hci1", "S1">>, <<"hci2", "S2">>, <<"hci1", "S2">>}

\* C23 as stated: if the target is connected nowhere and every non-reserved
\* adapter has a connected in-config speaker, the decision evicts a duplicated
\* speaker and is needs_connection on the adapter it was evicted from, or is
\* error when no in-config speaker is duplicated; in the example the decision
\* evicts S2 from hci1 and is needs_connection on hci1.
C23_DuplicateEvictedOrError ==
  LET others == p_in.allowed \ {p_in.target}
  IN /\ AllOccupied =>
          IF Duplicated(p_in.objects, others) = {}
          THEN p_out.status = "error"
          ELSE \E m \in others : DuplicateFreed(m)
     /\ DuplicateExample =>
          /\ p_out.status = "needs_connection"
          /\ p_out.controller = AdapterAddr["hci1"]
          /\ <<"S2", AdapterAddr["hci1"]>> \in Range(p_out.evict)

\* C23, amended: the adapter that the duplicated speaker gives up is the one
\* of its second connected device object in snapshot order; in the example S2
\* is evicted from hci1 when its object under hci2 precedes its object under
\* hci1 in the snapshot, and from hci2 otherwise.
C23_SecondConnectionEvicted ==
  LET others == p_in.allowed \ {p_in.target}
  IN /\ AllOccupied =>
          IF Duplicated(p_in.objects, others) = {}
          THEN p_out.status = "error"
          ELSE \E m \in others :
                 /\ DuplicateFreed(m)
                 /\ p_out.controller =
                      AdapterAddr[ConnectedOnFree(p_in.objects, {m})[2].hci]
     /\ DuplicateExample =>
          LET second == ConnectedOnFree(p_in.objects, {"S2"})[2].hci
          IN /\ p_out.status = "needs_connection"
             /\ p_out.controller = AdapterAddr[second]
             /\ p_out.evict = <<(<<"S2", AdapterAddr[second]>>)>>

\* the example with the object of S2 under hci2 ahead of its object under
\* hci1: S2 is evicted from hci1, which is handed out
C23_Witness ==
  /\ DuplicateExample
  /\ ConnectedOnFree(p_in.objects, {"S2"})[1].hci = "hci2"
  /\ p_out = Decision("needs_connection", AdapterAddr["hci1"],
                      <<(<<"S2", AdapterAddr["hci1"]>>)>>)

(***************************************************************************)
(* Properties of the steps of the handshake                                *)
(***************************************************************************)
\* the worker performs the iteration of the loop of _try_reconnect for
\* state s
FsmStep(s) ==
  /\ pc = "fsm" /\ fsm.state = s
  /\ <<pc, fsm, oplog>>' # <<pc, fsm, oplog>>

\* the entries of a log for the operations named in ops
OpsOf(log, ops) == SelectSeq(log, LAMBDA e : e.op \in ops)

\* the bus operations of the handshake
HandshakeOps ==
  {"StartDiscovery", "StopDiscovery", "Pair", "RemoveDevice", "Trust",
   "Connect", "ConnectProfile"}

\* a log holds the notification of the given phase
Notified(log, phase) ==
  \E i \in 1..Len(log) : log[i].op = "notify" /\ log[i].res = phase

\* a log holds the given operation with the given result
Did(log, op, res) ==
  \E i \in 1..Len(log) : log[i].op = op /\ log[i].res = res

\* C24: a handshake started for a device that the tree shows paired, trusted,
\* connected and with an audio profile is classified already_connected,
\* performs no discovery, pair, trust or connect operation, and ends: the
\* worker leaves the state already_connected only by finishing the run.
C24_AlreadyConnectedEnds ==
  [][/\ (/\ pc = "reconnect" /\ pc' = "fsm"
         /\ Exists(dev, DevicePath(dev, fsm.adapter, cur.mac))
         /\ LET d == dev[DevicePath(dev, fsm.adapter, cur.mac)]
            IN d.paired /\ d.trusted /\ d.connected /\ has_audio(cur.mac))
          => (fsm'.state = "already_connected" /\ OpsOf(oplog', HandshakeOps) = <<>>)
     /\ (pc = "fsm" /\ fsm.state = "already_connected" /\ pc' # pc)
          => (pc' = "done" /\ OpsOf(oplog', HandshakeOps) = <<>>)]_vars

\* C25: a failed pair operation is followed in the same iteration by exactly
\* one RemoveDevice on that device, uses up one retry and sends the handshake
\* back to run_discovery; RemoveDevice calls and failed pairings of a run are
\* equal in number, the run goes on after the second failed pairing when
\* nothing else failed, and a run that ends in success after two failed
\* pairings has made exactly two RemoveDevice calls.
C25_FailedPairRemovesOnce ==
  [][/\ (FsmStep("pair") /\ Did(oplog', "Pair", "fail")) =>
          /\ Len(OpsOf(oplog', {"RemoveDevice"})) = 1
          /\ \A i \in 1..Len(oplog') :
               oplog'[i].op = "RemoveDevice" =>
                 /\ oplog'[i].mac = cur.mac
                 /\ oplog'[i].arg = PathHci(fsm.device_path)
                 /\ \E j \in 1..(i - 1) : oplog'[j].op = "Pair"
          /\ fsm'.attempt = fsm.attempt + 1
          /\ fsm'.pair_failed = fsm.pair_failed + 1
          /\ fsm'.state = "run_discovery"
          /\ (fsm'.attempt = fsm'.pair_failed /\ fsm'.pair_failed <= 2) => pc' = "fsm"
     /\ fsm'.removed = fsm'.pair_failed
     /\ (pc' = "done" /\ fsm'.pair_failed = 2 /\ Notified(oplog', "connect_success")
           /\ CreatedOk(oplog', cur'.mac))
          => (fsm'.removed = 2 /\ cur'.mac \in loopbacks')]_vars

\* pairing failed twice, then discovery, pair, trust, connect and the
\* loopback succeeded: the run ends in success after two RemoveDevice calls
C25_Witness ==
  /\ pc = "done" /\ cur.intent = "CONNECT_ONE"
  /\ fsm.pair_failed = 2 /\ fsm.attempt = 2 /\ fsm.removed = 2
  /\ Did(oplog, "Connect", "ok")
  /\ Notified(oplog, "connect_success")
  /\ CreatedOk(oplog, cur.mac)
  /\ cur.mac \in loopbacks

\* C26: a failed connect operation uses up one retry and sends the handshake
\* back to pair; the iteration calls neither RemoveDevice nor StartDiscovery
\* and leaves the device object in the tree; the loop goes on exactly when
\* the budget allows, and the iteration of state pair starts with a Pair
\* operation.
C26_FailedConnectBackToPair ==
  [][/\ (FsmStep("connect") /\ Did(oplog', "Connect", "fail")) =>
          /\ fsm'.attempt = fsm.attempt + 1
          /\ fsm'.state = "pair"
          /\ fsm'.device_path = fsm.device_path
          /\ OpsOf(oplog', HandshakeOps \ {"Connect"}) = <<>>
          /\ dev' = dev /\ loopbacks' = loopbacks
          /\ pc' = IF fsm'.attempt < max_retry THEN "fsm" ELSE "done"
     /\ FsmStep("pair") =>
          /\ OpsOf(oplog', HandshakeOps) # <<>>
          /\ OpsOf(oplog', HandshakeOps)[1].op = "Pair"]_vars

\* a connect operation has just failed with budget left: the handshake is
\* in state pair with one retry used and the device still in the tree
C26_Witness ==
  /\ pc = "fsm" /\ fsm.state = "pair" /\ fsm.attempt = 1
  /\ Did(oplog, "Connect", "fail")
  /\ Notified(oplog, "connect_failed")
  /\ Exists(dev, fsm.device_path)

\* C27: the handshake ends in terminal success, with the target added to the
\* Loopback Registry, only when the Connect operation, the ConnectProfile
\* call and the loopback creation all succeeded.
C27_SuccessNeedsProfileAndLoopback ==
  [][(/\ FsmStep("connect") /\ pc' = "done"
      /\ Notified(oplog', "connect_success")
      /\ cur.mac \in loopbacks') =>
        /\ Did(oplog', "Connect", "ok")
        /\ Did(oplog', "ConnectProfile", "ok")
        /\ CreatedOk(oplog', cur.mac)]_vars

\* C28: if the wait for the target times out in run_discovery, the run ends:
\* the worker goes to the end of the run with the failure notification and
\* no pair, trust or connect operation, the Loopback Registry is unchanged,
\* and the only step from the end of the run returns the worker to idle
\* without any operation.
C28_TimeoutEndsRun ==
  [][/\ (FsmStep("run_discovery") /\ Notified(oplog', "discovery_timeout")) =>
          /\ pc' = "done"
          /\ loopbacks' = loopbacks
          /\ fsm' = fsm
          /\ OpsOf(oplog', HandshakeOps \ {"StartDiscovery", "StopDiscovery"}) = <<>>
          /\ Len(OpsOf(oplog', {"StartDiscovery"})) = 1
          /\ oplog'[Len(oplog')] = Note("ERROR", "discovery_timeout", cur.mac)
     /\ (pc = "done" /\ pc' # pc) =>
          (pc' = "idle" /\ oplog' = <<>> /\ loopbacks' = loopbacks)]_vars

\* the discovery of a handshake has just timed out
C28_Witness ==
  /\ pc = "done" /\ cur.intent = "CONNECT_ONE"
  /\ fsm.state = "run_discovery"
  /\ Notified(oplog, "discovery_timeout")
  /\ Did(oplog, "StopDiscovery", "ok")
  /\ cur.mac \notin loopbacks

\* C29: the iteration of state trust always leaves the handshake in state
\* connect with the retry counter unchanged and the loop going on, whether
\* the Trust operation succeeded or failed, and the iteration of state
\* connect starts with a Connect operation.
C29_TrustThenConnect ==
  [][/\ FsmStep("trust") =>
          /\ Len(OpsOf(oplog', {"Trust"})) = 1
          /\ fsm'.state = "connect"
          /\ fsm'.attempt = fsm.attempt
          /\ pc' = "fsm"
     /\ FsmStep("connect") =>
          /\ OpsOf(oplog', HandshakeOps) # <<>>
          /\ OpsOf(oplog', HandshakeOps)[1].op = "Connect"]_vars

\* the Trust operation has just failed: the handshake is in state connect
C29_Witness ==
  /\ pc = "fsm" /\ fsm.state = "connect"
  /\ Did(oplog, "Trust", "fail")

\* C30: when StartDiscovery raises InProgress in ensure_discovery, the call
\* returns normally and the reference count is one higher than before; when
\* StopDiscovery raises InProgress in release_discovery, the call returns
\* normally and the reference count is one lower than before.
C30_InProgressTolerated ==
  [][(scan_calls' # scan_calls /\ scan_call'.res = "InProgress") =>
       LET h == scan_call'.adapter
       IN /\ ~scan_call'.raised
          /\ scan_call'.op = "StartDiscovery" =>
               (scan_call'.fn = "ensure_discovery" /\ refcount'[h] = refcount[h] + 1)
          /\ scan_call'.op = "StopDiscovery" =>
               (scan_call'.fn = "release_discovery" /\ refcount'[h] = refcount[h] - 1)]_vars

\* the pairs (device, adapter address) of the devices that the snapshot
\* shows connected on a non-reserved adapter
ConnectedPairs(objects) ==
  {<<o.addr, AdapterAddr[o.hci]>> : o \in Range(ConnectedOnFree(objects, MacSet))}

\* C34: every pair of the evict list names a device that the snapshot shows
\* connected on that non-reserved adapter, and no pair occurs twice.
C34_EvictListSound ==
  p_out # NoPlan =>
    /\ \A i \in 1..Len(p_out.evict) : p_out.evict[i] \in ConnectedPairs(p_in.objects)
    /\ \A i, j \in 1..Len(p_out.evict) : p_out.evict[i] = p_out.evict[j] => i = j

\* a decision with three evictions: an out-of-config device, the target from
\* the adapter it shares, and a duplicated speaker
C34_Witness ==
  /\ p_out.status = "needs_connection"
  /\ Len(p_out.evict) = 3
  /\ \E i \in 1..3 : p_out.evict[i][1] = p_in.target
  /\ \E i \in 1..3 : p_out.evict[i][1] \notin p_in.allowed \cup {p_in.target}
  /\ \E i \in 1..3 : p_out.evict[i][1] \in p_in.allowed \ {p_in.target}

\* C35: with needs_connection the controller is a non-reserved adapter of the
\* snapshot; with error the controller is empty; with already_connected the
\* snapshot shows the target connected on the controller and the pair
\* (target, controller) is not in the evict list.
C35_StatusAgreesWithController ==
  p_out # NoPlan =>
    /\ p_out.status \in {"needs_connection", "error", "already_connected"}
    /\ p_out.status = "needs_connection" =>
         \E h \in FreeHcis :
           /\ p_out.controller = AdapterAddr[h]
           /\ \E i \in 1..Len(p_in.objects) :
                p_in.objects[i].kind = "adapter" /\ p_in.objects[i].hci = h
    /\ p_out.status = "error" => p_out.controller = ""
    /\ p_out.status = "already_connected" =>
         /\ <<p_in.target, p_out.controller>> \in ConnectedPairs(p_in.objects)
         /\ <<p_in.target, p_out.controller>> \notin Range(p_out.evict)

\* the target is connected on both non-reserved adapters: it keeps one and
\* is evicted from the other only
C35_Witness ==
  /\ p_out.status = "already_connected"
  /\ Len(ConnectedOnFree(p_in.objects, {p_in.target})) = 2
  /\ \E i \in 1..Len(p_out.evict) :
       p_out.evict[i][1] = p_in.target /\ p_out.evict[i][2] # p_out.controller

\* C36: no in-config speaker other than the target that the snapshot shows
\* connected on exactly one non-reserved adapter is in the evict list.
C36_SoleConnectionsPreserved ==
  p_out # NoPlan =>
    \A m \in p_in.allowed \ {p_in.target} :
      Cardinality(OccupiedBy(p_in.objects, {m})) = 1 =>
        \A i \in 1..Len(p_out.evict) : p_out.evict[i][1] # m

\* every non-reserved adapter is held by an in-config speaker, one of them
\* on both: the duplicated speaker is evicted, the other one is not
C36_Witness ==
  /\ AllOccupied
  /\ p_out.status = "needs_connection"
  /\ \E m \in p_in.allowed \ {p_in.target} :
       /\ Cardinality(OccupiedBy(p_in.objects, {m})) = 1
       /\ \A i \in 1..Len(p_out.evict) : p_out.evict[i][1] # m
  /\ \E m \in p_in.allowed \ {p_in.target} :
       /\ Cardinality(OccupiedBy(p_in.objects, {m})) = 2
       /\ \E i \in 1..Len(p_out.evict) : p_out.evict[i][1] = m

\* C37: when the decision is error, no pair of the evict list names the
\* target.
C37_ErrorLeavesTarget ==
  (p_out # NoPlan /\ p_out.status = "error") =>
    \A i \in 1..Len(p_out.evict) : p_out.evict[i][1] # p_in.target

(***************************************************************************)
(* Properties of the commands on the Loopback Registry and the Expected Set *)
(***************************************************************************)
\* the worker dequeues and executes a command of the given intent
CommandStep(intent) == pc = "idle" /\ pc' # "idle" /\ cur'.intent = intent

\* C32: a CONNECT_ONE whose decision is already_connected creates no loopback
\* and leaves the Loopback Registry unchanged when the registry holds the
\* target (so a repeated command adds nothing); when it does not, it attempts
\* exactly one creation, for the target, and adds the target exactly when the
\* creation succeeds.
C32_AlreadyConnectedIdempotent ==
  [][(CommandStep("CONNECT_ONE") /\ plan'.status = "already_connected") =>
       LET mac == cur'.mac
           made == OpsOf(oplog', {"create_loopback"})
       IN IF mac \in loopbacks
          THEN made = <<>> /\ loopbacks' = loopbacks
          ELSE /\ Len(made) = 1 /\ made[1].mac = mac
               /\ loopbacks' = IF made[1].res = "ok" THEN loopbacks \cup {mac}
                               ELSE loopbacks]_vars

\* a second command finds its target already connected and in the registry:
\* it sends the success and creates nothing
C32_Witness ==
  /\ pc = "done" /\ cur.intent = "CONNECT_ONE"
  /\ plan.status = "already_connected"
  /\ done # {}
  /\ cur.mac \in loopbacks
  /\ Notified(oplog, "connect_success")
  /\ OpsOf(oplog, {"create_loopback"}) = <<>>

\* C33: LOOPBACK_SYNC(mac, connected) attempts a creation only when connected
\* is true and mac is absent from the registry, and adds mac only when that
\* creation succeeds; it removes the route and mac only when connected is
\* false and mac is present; in the two other cases it changes nothing; the
\* Expected Set and the registry entries and routes of other MACs are never
\* changed.
C33_LoopbackSyncEffect ==
  [][CommandStep("LOOPBACK_SYNC") =>
       LET mac == cur'.mac
           connected == cur'.connected
           made == OpsOf(oplog', {"create_loopback"})
           removed == OpsOf(oplog', {"remove_loopback"})
       IN /\ expected' = expected
          /\ loopbacks' \ {mac} = loopbacks \ {mac}
          /\ routes' \ {mac} = routes \ {mac}
          /\ dev' = dev
          /\ IF connected /\ mac \notin loopbacks
             THEN /\ Len(made) = 1 /\ made[1].mac = mac /\ removed = <<>>
                  /\ mac \in loopbacks' <=> made[1].res = "ok"
                  /\ made[1].res = "ok" => mac \in routes'
             ELSE IF ~connected /\ mac \in loopbacks
             THEN /\ Len(removed) = 1 /\ removed[1].mac = mac /\ made = <<>>
                  /\ mac \notin loopbacks' /\ mac \notin routes'
             ELSE /\ oplog' = <<>>
                  /\ loopbacks' = loopbacks /\ routes' = routes]_vars

\* a LOOPBACK_SYNC(mac, true) for a MAC that the registry already holds has
\* just been executed and did nothing
C33_Witness ==
  /\ pc = "done" /\ cur.intent = "LOOPBACK_SYNC"
  /\ cur.connected /\ cur.mac \in loopbacks
  /\ oplog = <<>>

\* C38: the Expected Set loses a MAC only in the step that executes a
\* SET_EXPECTED with replace = TRUE; a SET_EXPECTED without replace adds its
\* MACs, CONNECT_ONE adds its target, and every other step, DISCONNECT and
\* LOOPBACK_SYNC included, leaves the set unchanged.
C38_ExpectedOnlyGrows ==
  [][/\ (expected \subseteq expected'
           \/ (CommandStep("SET_EXPECTED") /\ cur'.replace))
     /\ CommandStep("SET_EXPECTED") =>
          expected' = IF cur'.replace THEN cur'.allowed
                      ELSE expected \cup cur'.allowed
     /\ CommandStep("CONNECT_ONE") => expected' = expected \cup {cur'.mac}
     /\ (CommandStep("DISCONNECT") \/ CommandStep("LOOPBACK_SYNC")
           \/ pc # "idle" \/ pc' = "idle") => expected' = expected]_vars

\* a DISCONNECT of an expected MAC has just been executed: the MAC is still
\* expected
C38_Witness ==
  /\ pc = "done" /\ cur.intent = "DISCONNECT"
  /\ Did(oplog, "Disconnect", "ok")
  /\ cur.mac \in expected

(***************************************************************************)
(* ScanManager.wait_for_device: one caller, the signal handler, the clock  *)
(* and the object tree.  The harness covers a device that appears in the   *)
(* tree; other objects appear too and fire the same signal.                *)
(***************************************************************************)
\* the clock stops here
MaxClock == 3

\* InterfacesAdded signals that may be pending at once
MaxAdded == 2

\* the values of timeout_s that the caller passes
WaitTimeouts == {0, 2}

\* an exit test of the loop that never lets the caller wait
LoopGoesOn_Never(now, deadline) == FALSE

\* scan_manager.py 132: while time.time() < deadline
LoopGoesOn(now, deadline) == now < deadline

\* a caller that goes back to the loop test after a wake-up without
\* looking at the tree
AfterWake_NoLookup(pos) == "loop"

\* scan_manager.py 134-137: after wait() the caller looks the device up again
AfterWake(pos) == "check"

\* scan_manager.py 167-175: _lookup_device_path on the current tree
lookup_device_path(tree_has) == IF tree_has THEN "path" ELSE ""

\* the caller is inside wait_for_device
Inside(w) == w.pc \notin {"idle", "returned"}

WaitInit ==
  /\ SvcQuiet
  /\ p_in = NoInput
  /\ p_out = NoPlan
  /\ scan_call = NoCall
  /\ last_op = [h \in HciSet |-> NoOp]
  /\ scan_calls = 0
  /\ clock = 0
  /\ in_tree \in BOOLEAN
  /\ added = <<>>
  /\ cond_owner = ""
  /\ waiter = NoWaiter

WaitFrame ==
  UNCHANGED <<svcVars, p_in, p_out, scan_call, last_op, scan_calls>>

\* time passes
Tick ==
  /\ clock < MaxClock
  /\ clock' = clock + 1
  /\ UNCHANGED <<in_tree, added, cond_owner, waiter>>
  /\ WaitFrame

\* BlueZ adds the target's device object and emits InterfacesAdded
TreeAdd ==
  /\ ~in_tree /\ Len(added) < MaxAdded
  /\ in_tree' = TRUE
  /\ added' = Append(added, "target")
  /\ UNCHANGED <<clock, cond_owner, waiter>>
  /\ WaitFrame

\* BlueZ adds some other object and emits InterfacesAdded
OtherAdd ==
  /\ Len(added) < MaxAdded
  /\ added' = Append(added, "other")
  /\ UNCHANGED <<clock, in_tree, cond_owner, waiter>>
  /\ WaitFrame

\* scan_manager.py 145-148: _on_interfaces_added takes the lock and wakes
\* the waiters
OnInterfacesAdded ==
  /\ added # <<>>
  /\ cond_owner = ""
  /\ added' = Tail(added)
  /\ waiter' = [waiter EXCEPT
       !.notified = @ \/ waiter.pc = "waiting",
       !.seen = @ \/ (/\ Head(added) = "target" /\ Inside(waiter)
                      /\ clock < waiter.deadline)]
  /\ UNCHANGED <<clock, in_tree, cond_owner>>
  /\ WaitFrame

\* scan_manager.py 123-125: the deadline is computed on entry
WfdEnter ==
  /\ waiter.pc = "idle"
  /\ \E timeout_s \in WaitTimeouts :
       waiter' = [waiter EXCEPT !.pc = "entered", !.deadline = clock + timeout_s]
  /\ UNCHANGED <<clock, in_tree, added, cond_owner>>
  /\ WaitFrame

\* scan_manager.py 127: with self._cond
WfdAcquire ==
  /\ waiter.pc = "entered"
  /\ cond_owner = ""
  /\ cond_owner' = "caller"
  /\ waiter' = [waiter EXCEPT !.pc = "fast"]
  /\ UNCHANGED <<clock, in_tree, added>>
  /\ WaitFrame

\* what a lookup at position pos does to the caller: return the path and
\* leave the with block, or go to the loop test
Lookup(pos) ==
  /\ waiter.pc = pos
  /\ cond_owner = "caller"
  /\ LET path == lookup_device_path(in_tree)
     IN IF path # ""
        THEN /\ waiter' = [waiter EXCEPT !.pc = "returned", !.result = path,
                                         !.hit = TRUE]
             /\ cond_owner' = ""
        ELSE /\ waiter' = [waiter EXCEPT !.pc = "loop"]
             /\ cond_owner' = cond_owner
  /\ UNCHANGED <<clock, in_tree, added>>
  /\ WaitFrame

\* scan_manager.py 128-130: the fast path
WfdFastPath == Lookup("fast")

\* scan_manager.py 132-134 and 138: the loop test; wait() releases the lock,
\* and its timeout ends at the deadline
WfdLoop ==
  /\ waiter.pc = "loop"
  /\ cond_owner = "caller"
  /\ cond_owner' = ""
  /\ waiter' = IF LoopGoesOn(clock, waiter.deadline)
               THEN [waiter EXCEPT !.pc = "waiting", !.notified = FALSE,
                                   !.blocked = TRUE]
               ELSE [waiter EXCEPT !.pc = "returned", !.result = "none"]
  /\ UNCHANGED <<clock, in_tree, added>>
  /\ WaitFrame

\* scan_manager.py 134: wait() returns, notified or timed out, once it has
\* the lock again
WfdWake ==
  /\ waiter.pc = "waiting"
  /\ waiter.notified \/ clock >= waiter.deadline
  /\ cond_owner = ""
  /\ cond_owner' = "caller"
  /\ waiter' = [waiter EXCEPT !.pc = AfterWake(waiter.pc)]
  /\ UNCHANGED <<clock, in_tree, added>>
  /\ WaitFrame

\* scan_manager.py 135-137: the lookup after a wake-up
WfdCheck == Lookup("check")

WaitNext ==
  \/ Tick
  \/ TreeAdd
  \/ OtherAdd
  \/ OnInterfacesAdded
  \/ WfdEnter
  \/ WfdAcquire
  \/ WfdFastPath
  \/ WfdLoop
  \/ WfdWake
  \/ WfdCheck

WaitSpec == WaitInit /\ [][WaitNext]_vars

\* C31: wait_for_device returns the path without having waited when the
\* fast-path lookup finds the device; after a wake-up it returns the path
\* exactly when the lookup of that wake-up finds the device; and it returns
\* no path only at a loop test at which the deadline has passed, no lookup
\* having found the device.
C31_WaitForDevice ==
  [][/\ (waiter.pc = "fast" /\ waiter'.pc # "fast") =>
          IF in_tree
          THEN /\ waiter'.pc = "returned" /\ waiter'.result = "path"
               /\ ~waiter'.blocked
          ELSE waiter'.pc = "loop"
     /\ (waiter.pc = "check" /\ waiter'.pc # "check") =>
          IF in_tree
          THEN waiter'.pc = "returned" /\ waiter'.result = "path"
          ELSE waiter'.pc = "loop"
     /\ (waiter.pc = "waiting" /\ waiter'.pc # "waiting") => waiter'.pc = "check"
     /\ (waiter'.pc = "returned" /\ waiter.pc # "returned") =>
          /\ waiter'.result \in {"path", "none"}
          /\ waiter'.result = "none" =>
               (clock >= waiter.deadline /\ ~waiter'.hit /\ waiter.pc = "loop")
          /\ waiter'.result = "path" => in_tree]_vars

\* the caller found nothing on the fast path, waited, and returned the path
\* at a wake-up before the deadline, every pending signal handled
C31_Witness ==
  /\ waiter.pc = "returned" /\ waiter.result = "path"
  /\ waiter.blocked
  /\ clock < waiter.deadline
  /\ added = <<>>

\* C39: if the target's device object was added and its InterfacesAdded
\* signal was handled before the deadline while the caller was inside
\* wait_for_device, the caller does not return without the path.
C39_NoLostWakeup ==
  (waiter.pc = "returned" /\ waiter.seen) => waiter.result = "path"

\* the target appeared while the caller was waiting, the signal was handled
\* before the deadline, and the caller returned the path
C39_Witness ==
  /\ waiter.pc = "returned" /\ waiter.result = "path"
  /\ waiter.seen /\ waiter.blocked
  /\ clock < waiter.deadline

\* C40: every iteration of state run_discovery leaves the discovery
\* reference counts as it found them and calls release_discovery exactly
\* once, whether the device was found, the wait timed out, or
\* ensure_discovery, the wait or release_discovery raised; StopDiscovery is
\* called exactly when StartDiscovery was called and did not raise an error
\* other than InProgress; and no reference count is ever negative.
C40_DiscoveryStepBalanced ==
  [][/\ FsmStep("run_discovery") =>
          /\ refcount' = refcount
          /\ Len(OpsOf(oplog', {"release_discovery"})) = 1
          /\ Len(OpsOf(oplog', {"StartDiscovery"})) <= 1
          /\ Len(OpsOf(oplog', {"StopDiscovery"})) =
               Len(SelectSeq(oplog', LAMBDA e : e.op = "StartDiscovery" /\ e.res = "ok"))
          /\ \A i \in 1..Len(oplog') :
               oplog'[i].op \in {"StartDiscovery", "StopDiscovery", "release_discovery"}
                 => oplog'[i].arg = fsm.adapter
     /\ \A h \in HciSet : refcount'[h] >= 0]_vars

\* ensure_discovery has just raised in a handshake: release_discovery ran
\* on a count of zero, StopDiscovery was not called, and the worker is gone
C40_Witness ==
  /\ pc = "dead" /\ fsm.state = "run_discovery"
  /\ Did(oplog, "StartDiscovery", "raise")
  /\ Did(oplog, "release_discovery", "ok")
  /\ OpsOf(oplog, {"StopDiscovery"}) = <<>>
  /\ refcount[HciOf(fsm.adapter)] = 0

====
